---- MODULE Spec2Model ----
(***************************************************************************)
(* Student-roster constellation viewer: dataset normaliser, similarity     *)
(* scorer, layout engine and link selector, as implemented by the four     *)
(* App variants of the repository:                                         *)
(*   "app"     src/src/App.js                  (constellation circle)      *)
(*   "nodebox" src/bmsmusic/nodebox/src/App.js (organic blobs, energy)     *)
(*   "p0"      src/unnamed/part_000            (responsive, bottom sheet)  *)
(*   "p1"      src/unnamed/part_001            (year clusters, drawer)     *)
(*                                                                         *)
(* Strings are sequences of one-character strings, so that split, trim,    *)
(* lower-casing and the year regex are computed character by character.    *)
(* A JSON value is a record [t, s, a, n]: t is its type ("null", "str",    *)
(* "arr", "num"), s the characters of a string, a the elements of an array *)
(* (strings), n the value of a number.                                     *)
(***************************************************************************)
EXTENDS Integers, Sequences, FiniteSets, TLC

VARIABLES
    variant,    \* which App variant runs
    pc,         \* position of the run: "start", then what has been computed
    raw,        \* datasetRaw: the imported data.json, [isArray, items]
    dataset,    \* result of normalizeDataset: [threw, value]
    argA,       \* first argument of the last score call (<<>> absent, <<e>> present)
    argB,       \* second argument of the last score call
    mode,       \* scoring mode key
    score,      \* similarityScore(argA, argB, mode), in quarter points
    scoreSwap,  \* similarityScore(argB, argA, mode), in quarter points
    W,          \* viewport width, px
    H,          \* viewport height, px
    rotation,   \* rotation, in half-degrees
    yearFilter, \* "all" (AllYears) or a year number
    nodes,      \* positioned entities of the current layout
    centers,    \* group centres of the current layout
    active,     \* the selected entity (<<>> none, <<e>> selected)
    topN,       \* requested number of links
    links,      \* links of the current selection
    sheetOpen,  \* part_000: the bottom sheet is open
    sheetTab,   \* part_000: the tab the bottom sheet shows
    seenActive, \* part_000: the activeId the [activeId] effect last ran for
    raised,     \* the last event handler threw
    event       \* the last user event handled, [kind, id, dir] and the year
                \* filter it was handled under

\* the variables only the interactive specification changes
uiVars == <<sheetOpen, sheetTab, seenActive, raised, event>>

vars == <<variant, pc, raw, dataset, argA, argB, mode, score, scoreSwap,
          W, H, rotation, yearFilter, nodes, centers, active, topN, links, uiVars>>

Variants == {"app", "nodebox", "p0", "p1"}

(***************************************************************************)
(* Characters and strings                                                  *)
(***************************************************************************)

Digits == <<"0", "1", "2", "3", "4", "5", "6", "7", "8", "9">>

IsDigit(c) == \E i \in 1..Len(Digits) : Digits[i] = c

DigitVal(c) == (CHOOSE i \in 1..Len(Digits) : Digits[i] = c) - 1

\* String.prototype.toLowerCase, on one character
LowerChar(c) ==
    CASE c = "A" -> "a"
      [] c = "B" -> "b"
      [] c = "C" -> "c"
      [] c = "D" -> "d"
      [] c = "G" -> "g"
      [] c = "S" -> "s"
      [] c = "Y" -> "y"
      [] OTHER -> c

toLowerCase(s) == [i \in 1..Len(s) |-> LowerChar(s[i])]

IsSpace(c) == c = " "

RECURSIVE trimStart(_)
trimStart(s) ==
    IF s # <<>> /\ IsSpace(Head(s)) THEN trimStart(Tail(s)) ELSE s

RECURSIVE trimEnd(_)
trimEnd(s) ==
    IF s # <<>> /\ IsSpace(s[Len(s)]) THEN trimEnd(SubSeq(s, 1, Len(s) - 1)) ELSE s

\* String.prototype.trim
trim(s) == trimEnd(trimStart(s))

\* String.prototype.split(","): "" gives [""], "a,,b" gives ["a","","b"]
RECURSIVE splitFrom(_, _, _, _)
splitFrom(s, i, cur, out) ==
    IF i > Len(s) THEN Append(out, cur)
    ELSE IF s[i] = "," THEN splitFrom(s, i + 1, <<>>, Append(out, cur))
    ELSE splitFrom(s, i + 1, Append(cur, s[i]), out)

split(s) == splitFrom(s, 1, <<>>, <<>>)

\* Array.prototype.join(",")
RECURSIVE join(_)
join(a) ==
    IF a = <<>> THEN <<>>
    ELSE IF Len(a) = 1 THEN a[1]
    ELSE a[1] \o <<",">> \o join(Tail(a))

\* String(n) for a non-negative integer
RECURSIVE NumToStr(_)
NumToStr(n) ==
    IF n < 10 THEN <<Digits[n + 1]>>
    ELSE NumToStr(n \div 10) \o <<Digits[(n % 10) + 1]>>

\* .map((x) => x.trim())
trimAll(a) == [i \in 1..Len(a) |-> trim(a[i])]

\* .map((x) => x.toLowerCase())
lowerAll(a) == [i \in 1..Len(a) |-> toLowerCase(a[i])]

NonEmpty(s) == s # <<>>

(***************************************************************************)
(* JSON values of data.json                                                *)
(***************************************************************************)

JNull == [t |-> "null", s |-> <<>>, a |-> <<>>, n |-> 0]
JStr(s) == [t |-> "str", s |-> s, a |-> <<>>, n |-> 0]
JArr(a) == [t |-> "arr", s |-> <<>>, a |-> a, n |-> 0]
JNum(n) == [t |-> "num", s |-> <<>>, a |-> <<>>, n |-> n]

\* x ?? y tests for null/undefined
Nullish(v) == v.t = "null"

\* JavaScript truthiness: null, "" and 0 are falsy, every array is truthy
Truthy(v) ==
    CASE v.t = "null" -> FALSE
      [] v.t = "str" -> v.s # <<>>
      [] v.t = "num" -> v.n # 0
      [] OTHER -> TRUE

\* String(v)
String(v) ==
    CASE v.t = "null" -> <<"n", "u", "l", "l">>
      [] v.t = "str" -> v.s
      [] v.t = "num" -> NumToStr(v.n)
      [] OTHER -> join(v.a)

Coalesce(v, w) == IF Nullish(v) THEN w ELSE v

(***************************************************************************)
(* Dataset normaliser                                                      *)
(***************************************************************************)

NoYear == -1  \* encodes year = null

\* toArrayLoose of src/src/App.js; part_000 (22-29) and part_001 (19-26) hold
\* the same text.  An array is mapped through String and nothing else.
toArrayLoose(v) ==
    IF ~Truthy(v) THEN <<>>
    ELSE IF v.t = "arr" THEN v.a
    ELSE SelectSeq(trimAll(split(String(v))), NonEmpty)

\* toArrayLoose of the nodebox variant: trims, drops empties, lower-cases
toArrayLoose_Nodebox(v) ==
    IF ~Truthy(v) THEN <<>>
    ELSE IF v.t = "arr"
         THEN lowerAll(SelectSeq(trimAll(v.a), NonEmpty))
    ELSE lowerAll(SelectSeq(trimAll(split(String(v))), NonEmpty))

\* s.match(/(\d{1,2})/): the first digit, and the digit after it if there is one
RECURSIVE matchDigits(_)
matchDigits(s) ==
    IF s = <<>> THEN NoYear
    ELSE IF IsDigit(s[1])
         THEN IF Len(s) >= 2 /\ IsDigit(s[2])
              THEN DigitVal(s[1]) * 10 + DigitVal(s[2])
              ELSE DigitVal(s[1])
    ELSE matchDigits(Tail(s))

\* yearToNumber of src/src/App.js; part_000 (31-34) and part_001 (28-31) hold
\* the same text
yearToNumber(y) == matchDigits(String(Coalesce(y, JStr(<<>>))))

yearToNumber_Nodebox(y) == matchDigits(toLowerCase(String(Coalesce(y, JStr(<<>>)))))

\* d.f: a property read of an array element that is not an object gives undefined
Field(d, f) == IF d.k = "obj" THEN d[f] ELSE JNull

\* `s-${i}`
FallbackId(i) == <<"s", "-">> \o NumToStr(i)

\* String(n).padStart(2, "0")
padStart2(s) == IF Len(s) < 2 THEN <<"0">> \o s ELSE s

\* `Student ${i}`
StudentName(i) == <<"S", "t", "u", "d", "e", "n", "t", " ">> \o NumToStr(i)

\* a map callback that falls back to the index for a missing year as well
normalizeRecord_App_IndexYear(d, i) ==
    [id          |-> Coalesce(Field(d, "id"), JStr(FallbackId(i))),
     name        |-> Coalesce(Field(d, "name"),
                              Coalesce(Field(d, "id"), JStr(StudentName(i + 1)))),
     year        |-> IF yearToNumber(Field(d, "year")) = NoYear THEN i
                     ELSE yearToNumber(Field(d, "year")),
     instruments |-> toArrayLoose(Field(d, "instruments")),
     genres      |-> toArrayLoose(Field(d, "genres")),
     artists     |-> toArrayLoose(Field(d, "artists")),
     roles       |-> toArrayLoose(Field(d, "roles")),
     geek        |-> toArrayLoose(Field(d, "geek")),
     collab      |-> Coalesce(Field(d, "collab"), JStr(<<>>))]

\* the map callback of normalizeDataset, src/src/App.js and part_000 (i is 0-based)
normalizeRecord_App(d, i) ==
    [id          |-> Coalesce(Field(d, "id"), JStr(FallbackId(i))),
     name        |-> Coalesce(Field(d, "name"),
                              Coalesce(Field(d, "id"), JStr(StudentName(i + 1)))),
     year        |-> yearToNumber(Field(d, "year")),
     instruments |-> toArrayLoose(Field(d, "instruments")),
     genres      |-> toArrayLoose(Field(d, "genres")),
     artists     |-> toArrayLoose(Field(d, "artists")),
     roles       |-> toArrayLoose(Field(d, "roles")),
     geek        |-> toArrayLoose(Field(d, "geek")),
     collab      |-> Coalesce(Field(d, "collab"), JStr(<<>>))]

\* the map callback of normalizeDataset, part_001
normalizeRecord_P1(d, i) ==
    [id          |-> Coalesce(Field(d, "id"), JStr(FallbackId(i + 1))),
     name        |-> Coalesce(Field(d, "name"),
                              Coalesce(Field(d, "id"), JStr(StudentName(i + 1)))),
     year        |-> yearToNumber(Field(d, "year")),
     instruments |-> toArrayLoose(Coalesce(Field(d, "instruments"), Field(d, "instrument"))),
     genres      |-> toArrayLoose(Field(d, "genres")),
     artists     |-> toArrayLoose(Coalesce(Field(d, "artists"), Field(d, "arists"))),
     roles       |-> toArrayLoose(Field(d, "roles")),
     geek        |-> toArrayLoose(Field(d, "geek")),
     collab      |-> Coalesce(Field(d, "collab"), JStr(<<>>))]

\* the map callback of normalizeDataset, nodebox
normalizeRecord_Nodebox(d, i) ==
    LET id == IF Truthy(Field(d, "id"))
              THEN trim(String(Field(d, "id")))
              ELSE <<"s", "-">> \o padStart2(NumToStr(i + 1))
    IN  [id          |-> JStr(id),
         name        |-> JStr(IF Truthy(Field(d, "name"))
                              THEN trim(String(Field(d, "name")))
                              ELSE id),
         year        |-> yearToNumber_Nodebox(Field(d, "year")),
         instruments |-> toArrayLoose_Nodebox(Field(d, "instruments")),
         genres      |-> toArrayLoose_Nodebox(Field(d, "genres")),
         artists     |-> toArrayLoose_Nodebox(Field(d, "artists")),
         roles       |-> toArrayLoose_Nodebox(Coalesce(Field(d, "role"), Field(d, "roles"))),
         geek        |-> toArrayLoose_Nodebox(Field(d, "geek")),
         collab      |-> JStr(IF Truthy(Field(d, "collab"))
                              THEN toLowerCase(trim(String(Field(d, "collab"))))
                              ELSE <<>>)]

\* The result of a call: threw = TRUE when it raised a TypeError
Returned(v) == [threw |-> FALSE, value |-> v]
Threw == [threw |-> TRUE, value |-> <<>>]

\* Reading d.id of a null or undefined element raises a TypeError
ThrowsOn(items) == \E i \in 1..Len(items) : items[i].k = "null"

IdTruthy(e) == Truthy(e.id)

normalizeDataset_App(r) ==
    LET items == IF r.isArray THEN r.items ELSE <<>>
    IN  IF ThrowsOn(items) THEN Threw
        ELSE Returned([i \in 1..Len(items) |-> normalizeRecord_App(items[i], i - 1)])

normalizeDataset_P1(r) ==
    LET items == IF r.isArray THEN r.items ELSE <<>>
    IN  IF ThrowsOn(items) THEN Threw
        ELSE Returned([i \in 1..Len(items) |-> normalizeRecord_P1(items[i], i - 1)])

normalizeDataset_Nodebox(r) ==
    LET items == IF r.isArray THEN r.items ELSE <<>>
    IN  IF ThrowsOn(items) THEN Threw
        ELSE Returned(SelectSeq(
                 [i \in 1..Len(items) |-> normalizeRecord_Nodebox(items[i], i - 1)],
                 IdTruthy))

\* normalizeDataset of the running variant (part_000's text is that of src/src/App.js)
normalizeDataset(v, r) ==
    CASE v = "nodebox" -> normalizeDataset_Nodebox(r)
      [] v = "p1" -> normalizeDataset_P1(r)
      [] OTHER -> normalizeDataset_App(r)

(***************************************************************************)
(* Raw inputs: the elements data.json may hold                             *)
(***************************************************************************)

MaxRecords == 2  \* longest raw array drawn

AllStr == <<"a", "l", "l">>

\* An element of the raw array: k = "obj" an object with these properties,
\* k = "null" a null element, k = "prim" a number or string element.
Elem(k, id, name, year, instruments, genres, artists, roles, geek, collab) ==
    [k |-> k, id |-> id, name |-> name, year |-> year,
     instruments |-> instruments, instrument |-> JNull,
     genres |-> genres, artists |-> artists, arists |-> JNull,
     roles |-> roles, role |-> JNull, geek |-> geek, collab |-> collab]

Obj(id, name, year, instruments, genres, artists, roles, geek, collab) ==
    Elem("obj", id, name, year, instruments, genres, artists, roles, geek, collab)

EmptyObj == Obj(JNull, JNull, JNull, JNull, JNull, JNull, JNull, JNull, JNull)
NullElem == Elem("null", JNull, JNull, JNull, JNull, JNull, JNull, JNull, JNull, JNull)
PrimElem == Elem("prim", JNull, JNull, JNull, JNull, JNull, JNull, JNull, JNull, JNull)

WithId(id) == Obj(JStr(id), JNull, JNull, JNull, JNull, JNull, JNull, JNull, JNull)

\* {id:"s1", instruments:"guitar, Guitar, Drums", year:"Year 7"}
ScenarioRec ==
    Obj(JStr(<<"s", "1">>), JNull, JStr(<<"Y", "e", "a", "r", " ", "7">>),
        JStr(<<"g", "u", "i", "t", "a", "r", ",", " ", "G", "u", "i", "t", "a", "r", ",", " ", "D", "r", "u", "m", "s">>),
        JNull, JNull, JNull, JNull, JNull)

\* {id:"x", name:"Al", year:8, instruments:["A ", ""], genres:" , ", artists:["b"],
\*  roles:"c", geek:"a,B", collab:"Yes "}
MixedRec ==
    Obj(JStr(<<"x">>), JStr(<<"A", "l">>), JNum(8),
        JArr(<< <<"A", " ">>, <<>> >>), JStr(<<" ", ",", " ">>), JArr(<< <<"b">> >>),
        JStr(<<"c">>), JStr(<<"a", ",", "B">>), JStr(<<"Y", "e", "s", " ">>))

\* {id:"x", year:"7B", instrument:"G", arists:"c", role:"b"}: the alternative keys
AltKeysRec ==
    [Obj(JStr(<<"x">>), JNull, JStr(<<"7", "B">>), JNull, JNull, JNull, JNull, JNull, JNull)
        EXCEPT !.instrument = JStr(<<"G">>), !.arists = JStr(<<"c">>), !.role = JStr(<<"b">>)]

\* {year:"Y12b3"}, {year:0}, {year:"abc"}, {year:123}
YearRecs ==
    {Obj(JNull, JNull, y, JNull, JNull, JNull, JNull, JNull, JNull) :
        y \in {JStr(<<"Y", "1", "2", "b", "3">>), JNum(0), JStr(<<"a", "b", "c">>), JNum(123)}}

RawSamples ==
    {EmptyObj, NullElem, PrimElem, ScenarioRec, MixedRec, AltKeysRec,
     WithId(<<"s", "-", "1">>), WithId(<<"s", "-", "0", "2">>), WithId(<<>>), WithId(<<" ">>),
     WithId(<<"y">>)}
    \cup YearRecs

SeqsUpTo(S, n) == UNION {[1..k -> S] : k \in 0..n}

\* datasetRaw: a non-array (treated as empty) or an array of elements
RawInputs ==
    {[isArray |-> FALSE, items |-> <<>>]}
    \cup {[isArray |-> TRUE, items |-> it] : it \in SeqsUpTo(RawSamples, MaxRecords)}

(***************************************************************************)
(* Values of the variables a specification does not use                    *)
(***************************************************************************)

NoRaw == [isArray |-> TRUE, items |-> <<>>]

ScoreIdle == argA = <<>> /\ argB = <<>> /\ mode = "band" /\ score = 0 /\ scoreSwap = 0

ViewIdle == W = 0 /\ H = 0 /\ rotation = 0 /\ yearFilter = AllStr
            /\ nodes = <<>> /\ centers = <<>>

LinksIdle == active = <<>> /\ topN = 0 /\ links = <<>>

\* no event handled yet; the sheet as useState leaves it (part_000 246-247)
NoEvent == [kind |-> "none", id |-> <<>>, dir |-> 0, was |-> <<"a", "l", "l">>]

UIIdle == sheetOpen = FALSE /\ sheetTab = "matches" /\ seenActive = <<>>
          /\ raised = FALSE /\ event = NoEvent

(***************************************************************************)
(* SpecNorm: the dataset is normalised once, when App mounts               *)
(***************************************************************************)

InitNorm ==
    /\ variant \in Variants
    /\ pc = "start"
    /\ raw \in RawInputs
    /\ dataset = Returned(<<>>)
    /\ ScoreIdle /\ ViewIdle /\ LinksIdle /\ UIIdle

\* const dataset = useMemo(() => normalizeDataset(datasetRaw), [])
LoadDataset ==
    /\ pc = "start"
    /\ dataset' = normalizeDataset(variant, raw)
    /\ pc' = "loaded"
    /\ UNCHANGED <<uiVars, variant, raw, argA, argB, mode, score, scoreSwap,
                   W, H, rotation, yearFilter, nodes, centers, active, topN, links>>

NextNorm == LoadDataset

SpecNorm == InitNorm /\ [][NextNorm]_vars

TagFields == {"instruments", "genres", "artists", "roles", "geek"}

\* C8: normalize never raises; a non-array gives the empty sequence and an array
\* gives exactly one entity per input record, in input order (entity i carries
\* the year of record i).
C8_NormalizeTotal ==
    pc = "loaded" =>
        /\ ~dataset.threw
        /\ ~raw.isArray => dataset.value = <<>>
        /\ raw.isArray =>
              /\ Len(dataset.value) = Len(raw.items)
              /\ \A i \in 1..Len(raw.items) :
                    dataset.value[i].year = matchDigits(String(Coalesce(Field(raw.items[i], "year"), JStr(<<>>))))

\* C9: after normalize every entity id is non-empty and no two entities share an id.
C9_IdsUniqueNonEmpty ==
    (pc = "loaded" /\ ~dataset.threw) =>
        /\ \A i \in 1..Len(dataset.value) : Truthy(dataset.value[i].id)
        /\ \A i, j \in 1..Len(dataset.value) :
              i # j => dataset.value[i].id # dataset.value[j].id

\* C10: after normalize every element of the five tag attributes is a
\* lower-case, trimmed, non-empty string.
C10_TagsCanonical ==
    (pc = "loaded" /\ ~dataset.threw) =>
        \A i \in 1..Len(dataset.value) : \A f \in TagFields :
            \A k \in 1..Len(dataset.value[i][f]) :
                LET tok == dataset.value[i][f][k]
                IN  tok # <<>> /\ trim(tok) = tok /\ toLowerCase(tok) = tok

(***************************************************************************)
(* Similarity scorer.  Scores are kept in quarter points (4 * the          *)
(* JavaScript number), which makes part_001's weight 0.75 an integer.      *)
(* An argument is <<>> when absent (null/undefined) and <<e>> otherwise.   *)
(***************************************************************************)

\* x === y on JSON values; two arrays are distinct objects
StrictEq(x, y) == x.t = y.t /\ x.t # "arr" /\ x = y

\* toSet of src/src/App.js and part_000 (54-56): lower-cases, nothing else
toSet(arr) == {toLowerCase(arr[i]) : i \in 1..Len(arr)}

\* toSet of nodebox: lower-cases, trims, drops empties
toSet_Nodebox(arr) == {trim(toLowerCase(arr[i])) : i \in 1..Len(arr)} \ {<<>>}

\* normToken of part_001
normToken(x) == trim(toLowerCase(x))

\* toSet of part_001
toSet_P1(arr) == {normToken(arr[i]) : i \in 1..Len(arr)} \ {<<>>}

\* A.forEach((v) => B.has(v) && c++)
overlapCount(A, B) == Cardinality({v \in A : v \in B})

scoreInstrument(a, b) == overlapCount(toSet(a.instruments), toSet(b.instruments)) * 3

scoreInfluences(a, b) ==
    overlapCount(toSet(a.artists), toSet(b.artists)) * 3
    + overlapCount(toSet(a.genres), toSet(b.genres)) * 2

\* mutant: the geek term subtracted instead of added
scoreIdealBand_Minus(a, b) ==
    overlapCount(toSet(a.instruments), toSet(b.instruments)) * 2
    + overlapCount(toSet(a.roles), toSet(b.roles)) * 2
    + overlapCount(toSet(a.genres), toSet(b.genres)) * 2
    + overlapCount(toSet(a.artists), toSet(b.artists)) * 2
    - overlapCount(toSet(a.geek), toSet(b.geek)) * 1

scoreIdealBand(a, b) ==
    overlapCount(toSet(a.instruments), toSet(b.instruments)) * 2
    + overlapCount(toSet(a.roles), toSet(b.roles)) * 2
    + overlapCount(toSet(a.genres), toSet(b.genres)) * 2
    + overlapCount(toSet(a.artists), toSet(b.artists)) * 2
    + overlapCount(toSet(a.geek), toSet(b.geek)) * 1

\* mutant: the self test compares the objects, not their ids
similarityScore_App_Identity(a, b, m) ==
    IF a = <<>> \/ b = <<>> THEN 0
    ELSE IF a[1] = b[1] THEN 0
    ELSE IF m = "instrument" THEN 4 * scoreInstrument(a[1], b[1])
    ELSE IF m = "influences" THEN 4 * scoreInfluences(a[1], b[1])
    ELSE 4 * scoreIdealBand(a[1], b[1])

\* similarityScore of src/src/App.js
similarityScore_App(a, b, m) ==
    IF a = <<>> \/ b = <<>> THEN 0
    ELSE IF StrictEq(a[1].id, b[1].id) THEN 0
    ELSE IF m = "instrument" THEN 4 * scoreInstrument(a[1], b[1])
    ELSE IF m = "influences" THEN 4 * scoreInfluences(a[1], b[1])
    ELSE 4 * scoreIdealBand(a[1], b[1])

\* mutant: only the first of the two bonus lines
collabBonus_OneSided(a, b) ==
    LET ca == toLowerCase(IF Truthy(a.collab) THEN String(a.collab) ELSE <<>>)
        cb == toLowerCase(IF Truthy(b.collab) THEN String(b.collab) ELSE <<>>)
        yes == <<"y", "e", "s">>
        maybe == <<"m", "a", "y", "b", "e">>
    IN  IF ca = yes /\ (cb = yes \/ cb = maybe) THEN 1 ELSE 0

\* the collaboration bonus of nodebox's similarityScore
collabBonus(a, b) ==
    LET ca == toLowerCase(IF Truthy(a.collab) THEN String(a.collab) ELSE <<>>)
        cb == toLowerCase(IF Truthy(b.collab) THEN String(b.collab) ELSE <<>>)
        yes == <<"y", "e", "s">>
        maybe == <<"m", "a", "y", "b", "e">>
    IN  (IF ca = yes /\ (cb = yes \/ cb = maybe) THEN 1 ELSE 0)
        + (IF cb = yes /\ (ca = yes \/ ca = maybe) THEN 1 ELSE 0)

\* similarityScore of nodebox (no mode parameter)
similarityScore_Nodebox(a, b) ==
    IF a = <<>> \/ b = <<>> THEN 0
    ELSE IF StrictEq(a[1].id, b[1].id) THEN 0
    ELSE LET ins == overlapCount(toSet_Nodebox(a[1].instruments), toSet_Nodebox(b[1].instruments))
             gen == overlapCount(toSet_Nodebox(a[1].genres), toSet_Nodebox(b[1].genres))
             art == overlapCount(toSet_Nodebox(a[1].artists), toSet_Nodebox(b[1].artists))
             rol == overlapCount(toSet_Nodebox(a[1].roles), toSet_Nodebox(b[1].roles))
             gek == overlapCount(toSet_Nodebox(a[1].geek), toSet_Nodebox(b[1].geek))
         IN  4 * (ins * 3 + gen * 2 + art * 2 + rol * 1 + gek * 1 + collabBonus(a[1], b[1]))

\* part_000 with instruments weighing 6 under influences as well
similarityScore_P0_InfluencesByInstruments(a, b, m) ==
    IF a = <<>> \/ b = <<>> THEN 0
    ELSE IF StrictEq(a[1].id, b[1].id) THEN 0
    ELSE LET inst == overlapCount(toSet(a[1].instruments), toSet(b[1].instruments))
             gen == overlapCount(toSet(a[1].genres), toSet(b[1].genres))
             art == overlapCount(toSet(a[1].artists), toSet(b[1].artists))
             rol == overlapCount(toSet(a[1].roles), toSet(b[1].roles))
             gek == overlapCount(toSet(a[1].geek), toSet(b[1].geek))
         IN  IF m = "instruments" THEN 4 * (inst * 6 + rol * 2 + gen * 1 + art * 1)
             ELSE IF m = "influences" THEN 4 * (art * 5 + gen * 4 + inst * 6 + rol * 1)
             ELSE 4 * (inst * 3 + rol * 3 + art * 2 + gen * 2 + gek * 1)

\* similarityScore of part_000
similarityScore_P0(a, b, m) ==
    IF a = <<>> \/ b = <<>> THEN 0
    ELSE IF StrictEq(a[1].id, b[1].id) THEN 0
    ELSE LET inst == overlapCount(toSet(a[1].instruments), toSet(b[1].instruments))
             gen == overlapCount(toSet(a[1].genres), toSet(b[1].genres))
             art == overlapCount(toSet(a[1].artists), toSet(b[1].artists))
             rol == overlapCount(toSet(a[1].roles), toSet(b[1].roles))
             gek == overlapCount(toSet(a[1].geek), toSet(b[1].geek))
         IN  IF m = "instruments" THEN 4 * (inst * 6 + rol * 2 + gen * 1 + art * 1)
             ELSE IF m = "influences" THEN 4 * (art * 5 + gen * 4 + inst * 1 + rol * 1)
             ELSE 4 * (inst * 3 + rol * 3 + art * 2 + gen * 2 + gek * 1)

\* a scoreForMode that scores 0 under a key it does not know
scoreForMode_UnknownZero(a, b, m) ==
    IF a = <<>> \/ b = <<>> THEN 0
    ELSE IF StrictEq(a[1].id, b[1].id) THEN 0
    ELSE LET inst == overlapCount(toSet_P1(a[1].instruments), toSet_P1(b[1].instruments))
             gen == overlapCount(toSet_P1(a[1].genres), toSet_P1(b[1].genres))
             art == overlapCount(toSet_P1(a[1].artists), toSet_P1(b[1].artists))
             rol == overlapCount(toSet_P1(a[1].roles), toSet_P1(b[1].roles))
             gek == overlapCount(toSet_P1(a[1].geek), toSet_P1(b[1].geek))
         IN  IF m = "instruments" THEN 4 * (inst * 5)
             ELSE IF m = "influences" THEN 4 * (art * 4 + gen * 2)
             ELSE IF m = "ideal" THEN 4 * (inst * 3 + gen * 2 + art * 2 + rol * 1) + gek * 3
             ELSE 0

\* scoreForMode of part_001; the weight of geek is 0.75, three quarter points
scoreForMode(a, b, m) ==
    IF a = <<>> \/ b = <<>> THEN 0
    ELSE IF StrictEq(a[1].id, b[1].id) THEN 0
    ELSE LET inst == overlapCount(toSet_P1(a[1].instruments), toSet_P1(b[1].instruments))
             gen == overlapCount(toSet_P1(a[1].genres), toSet_P1(b[1].genres))
             art == overlapCount(toSet_P1(a[1].artists), toSet_P1(b[1].artists))
             rol == overlapCount(toSet_P1(a[1].roles), toSet_P1(b[1].roles))
             gek == overlapCount(toSet_P1(a[1].geek), toSet_P1(b[1].geek))
         IN  IF m = "instruments" THEN 4 * (inst * 5)
             ELSE IF m = "influences" THEN 4 * (art * 4 + gen * 2)
             ELSE 4 * (inst * 3 + gen * 2 + art * 2 + rol * 1) + gek * 3

\* the scorer of the running variant
similarityScore(v, a, b, m) ==
    CASE v = "nodebox" -> similarityScore_Nodebox(a, b)
      [] v = "p0" -> similarityScore_P0(a, b, m)
      [] v = "p1" -> scoreForMode(a, b, m)
      [] OTHER -> similarityScore_App(a, b, m)

\* mode keys of the variants' selectors, and one key none of them knows
Modes == {"instrument", "instruments", "influences", "band", "ideal", "other"}

(***************************************************************************)
(* SpecScore: two records are normalised and scored against each other     *)
(***************************************************************************)

Yes == <<"y", "e", "s">>
Maybe == <<"m", "a", "y", "b", "e">>

\* collab flags; only nodebox reads them, so only nodebox draws them
CollabSamples(v) == IF v = "nodebox" THEN {JNull, JStr(Yes), JStr(Maybe)} ELSE {JNull}

\* first record: id "x", every combination of tag fields
ScoreRecsA(v) ==
    {Obj(JStr(<<"x">>), JNull, JNull, i, g, a, r, k, c) :
        i \in {JNull, JStr(<<"a", ",", " ", "B">>), JArr(<< <<"A">>, <<"a">>, <<"b">> >>)},
        g \in {JNull, JStr(<<"g">>)},
        a \in {JNull, JStr(<<"c">>)},
        r \in {JNull, JStr(<<"b">>)},
        k \in {JNull, JStr(<<"d">>)},
        c \in CollabSamples(v)}

\* second record: the same or another id; no tags, all five, an untrimmed
\* array of instruments (two of them), or genres and geek only
ScoreRecsB(v) ==
    {Obj(JStr(id), JNull, JNull, t[1], t[2], t[3], t[4], t[5], c) :
        id \in {<<"x">>, <<"y">>},
        t \in {<<JNull, JNull, JNull, JNull, JNull>>,
               <<JStr(<<"A", ",", "b">>), JStr(<<"G">>), JStr(<<"c">>), JStr(<<"b">>), JStr(<<"d">>)>>,
               <<JArr(<< <<"b">>, <<"B", " ">> >>), JNull, JNull, JNull, JNull>>,
               <<JArr(<< <<"A", " ">>, <<"b">> >>), JNull, JNull, JNull, JNull>>,
               <<JNull, JStr(<<"g">>), JNull, JNull, JStr(<<"d">>)>>},
        c \in CollabSamples(v)}

ScoreInputs(v) ==
    {[isArray |-> TRUE, items |-> <<ra, rb>>] : ra \in ScoreRecsA(v), rb \in ScoreRecsB(v)}

InitScore ==
    /\ variant \in Variants
    /\ pc = "start"
    /\ raw \in ScoreInputs(variant)
    /\ dataset = Returned(<<>>)
    /\ ScoreIdle /\ ViewIdle /\ LinksIdle /\ UIIdle

\* entity i of the dataset as an argument; 0 is an absent argument
Arg(i) == IF i = 0 THEN <<>> ELSE <<dataset.value[i]>>

\* a call score(a, b, m) and the call with the arguments swapped
ScorePair(i, j, m) ==
    /\ pc = "loaded"
    /\ ~dataset.threw
    /\ argA' = Arg(i)
    /\ argB' = Arg(j)
    /\ mode' = m
    /\ score' = similarityScore(variant, Arg(i), Arg(j), m)
    /\ scoreSwap' = similarityScore(variant, Arg(j), Arg(i), m)
    /\ pc' = "scored"
    /\ UNCHANGED <<uiVars, variant, raw, dataset, W, H, rotation, yearFilter, nodes, centers,
                   active, topN, links>>

ScoreStep ==
    \E i \in 0..1, j \in 0..Len(dataset.value), m \in Modes : ScorePair(i, j, m)

NextScore == LoadDataset \/ ScoreStep

SpecScore == InitScore /\ [][NextScore]_vars

BothPresent == argA # <<>> /\ argB # <<>>

NoTags(e) == \A f \in TagFields : e[f] = <<>>

\* C1: score(a,b,m) = score(b,a,m) for all entities and modes, the
\* collaboration bonus included.
C1_ScoreSymmetric == pc = "scored" => score = scoreSwap

\* a "yes" entity scored against a "maybe" entity, with tags in common
C1_Witness ==
    /\ pc = "scored" /\ BothPresent /\ variant = "nodebox"
    /\ argA[1].collab = JStr(Yes) /\ argB[1].collab = JStr(Maybe)
    /\ argA[1].id # argB[1].id
    /\ score > 4 /\ score = scoreSwap

\* C2: score is 0 when the two entities have the same id or either is absent,
\* whatever the mode and the tags they share.
C2_SelfOrAbsentZero ==
    pc = "scored" =>
        /\ (argA = <<>> \/ argB = <<>>) => score = 0
        /\ (BothPresent /\ argA[1].id = argB[1].id) => score = 0

\* two different records with the same id and instruments in common
C2_Witness ==
    /\ pc = "scored" /\ BothPresent
    /\ argA[1].id = argB[1].id /\ argA[1] # argB[1]
    /\ toSet(argA[1].instruments) \cap toSet(argB[1].instruments) # {}
    /\ score = 0

\* C3: score is never negative, whatever the pair (empty tag sets included)
\* and the mode.
C3_ScoreNonNegative == pc = "scored" => score >= 0 /\ scoreSwap >= 0

\* an entity without any tag scored against one with tags, under an unknown mode
C3_Witness ==
    /\ pc = "scored" /\ BothPresent
    /\ argA[1].id # argB[1].id
    /\ NoTags(argA[1]) /\ ~NoTags(argB[1])
    /\ mode = "other" /\ score = 0

(***************************************************************************)
(* Geometry.  Lengths and coordinates are in thousandths of a pixel,       *)
(* angles in half-degrees (720 to the turn), cosines and sines in          *)
(* thousandths.  -Math.PI / 2 is -180, Math.PI * 2 is 720.                 *)
(***************************************************************************)

\* 1000 * cos(k / 2 degrees), k = 0 .. 180, rounded
CosTable ==
    <<
     1000, 1000, 1000, 1000, 999, 999, 999, 998, 998, 997, 996, 995,
     995, 994, 993, 991, 990, 989, 988, 986, 985, 983, 982, 980,
     978, 976, 974, 972, 970, 968, 966, 964, 961, 959, 956, 954,
     951, 948, 946, 943, 940, 937, 934, 930, 927, 924, 921, 917,
     914, 910, 906, 903, 899, 895, 891, 887, 883, 879, 875, 870,
     866, 862, 857, 853, 848, 843, 839, 834, 829, 824, 819, 814,
     809, 804, 799, 793, 788, 783, 777, 772, 766, 760, 755, 749,
     743, 737, 731, 725, 719, 713, 707, 701, 695, 688, 682, 676,
     669, 663, 656, 649, 643, 636, 629, 623, 616, 609, 602, 595,
     588, 581, 574, 566, 559, 552, 545, 537, 530, 522, 515, 508,
     500, 492, 485, 477, 469, 462, 454, 446, 438, 431, 423, 415,
     407, 399, 391, 383, 375, 367, 358, 350, 342, 334, 326, 317,
     309, 301, 292, 284, 276, 267, 259, 250, 242, 233, 225, 216,
     208, 199, 191, 182, 174, 165, 156, 148, 139, 131, 122, 113,
     105, 96, 87, 78, 70, 61, 52, 44, 35, 26, 17, 9,
     0
    >>

\* Math.cos
cos(a) ==
    LET r == a % 720
    IN  IF r <= 180 THEN CosTable[r + 1]
        ELSE IF r <= 360 THEN -CosTable[(360 - r) + 1]
        ELSE IF r <= 540 THEN -CosTable[(r - 360) + 1]
        ELSE CosTable[(720 - r) + 1]

\* Math.sin
sin(a) == cos(a - 180)

\* x * c for a length x and a cosine or sine c
Scale(x, c) == (x * c) \div 1000

\* x * p / 100, for the decimal factors of the layouts (0.66 is p = 66)
Pct(x, p) == (x * p) \div 100

Min(a, b) == IF a < b THEN a ELSE b
Max(a, b) == IF a > b THEN a ELSE b

\* clamp(n, a, b) = Math.max(a, Math.min(b, n))
clamp(n, a, b) == Max(a, Min(b, n))

\* String(a).localeCompare(String(b)) < 0: letters compare without case first,
\* then lower case before upper case
CharRank(c) ==
    CASE c = " " -> 0
      [] c = "-" -> 1
      [] IsDigit(c) -> 2 + DigitVal(c)
      [] LowerChar(c) = "a" -> 20
      [] LowerChar(c) = "b" -> 21
      [] LowerChar(c) = "c" -> 22
      [] LowerChar(c) = "d" -> 23
      [] LowerChar(c) = "e" -> 24
      [] LowerChar(c) = "g" -> 25
      [] LowerChar(c) = "l" -> 26
      [] LowerChar(c) = "n" -> 27
      [] LowerChar(c) = "s" -> 28
      [] LowerChar(c) = "t" -> 29
      [] LowerChar(c) = "u" -> 30
      [] LowerChar(c) = "x" -> 31
      [] LowerChar(c) = "y" -> 32
      [] OTHER -> 40

RECURSIVE primaryLess(_, _)
primaryLess(s, t) ==
    IF t = <<>> THEN FALSE
    ELSE IF s = <<>> THEN TRUE
    ELSE IF CharRank(s[1]) # CharRank(t[1]) THEN CharRank(s[1]) < CharRank(t[1])
    ELSE primaryLess(Tail(s), Tail(t))

RECURSIVE caseLess(_, _)
caseLess(s, t) ==
    IF s = <<>> \/ t = <<>> THEN FALSE
    ELSE IF s[1] # t[1] THEN LowerChar(s[1]) = s[1]
    ELSE caseLess(Tail(s), Tail(t))

localeLess(s, t) ==
    \/ primaryLess(s, t)
    \/ (~primaryLess(t, s) /\ caseLess(s, t))

(***************************************************************************)
(* Layout engine                                                           *)
(***************************************************************************)

\* [...set].sort((a, b) => a - b)
RECURSIVE SortAsc(_)
SortAsc(S) ==
    IF S = {} THEN <<>>
    ELSE LET lo == CHOOSE x \in S : \A y \in S : x <= y
         IN  <<lo>> \o SortAsc(S \ {lo})

RECURSIVE Flatten(_)
Flatten(ss) == IF ss = <<>> THEN <<>> ELSE Head(ss) \o Flatten(Tail(ss))

\* String(d.name) as the sort key
NameKey(d) == String(d.name)

\* .sort((a, b) => String(a.name).localeCompare(String(b.name))): a stable sort
RECURSIVE insertByName(_, _)
insertByName(sorted, e) ==
    IF sorted = <<>> THEN <<e>>
    ELSE IF localeLess(NameKey(e), NameKey(Head(sorted))) THEN <<e>> \o sorted
    ELSE <<Head(sorted)>> \o insertByName(Tail(sorted), e)

RECURSIVE sortByName(_)
sortByName(a) ==
    IF a = <<>> THEN <<>>
    ELSE insertByName(sortByName(SubSeq(a, 1, Len(a) - 1)), a[Len(a)])

\* Number(yearFilter) for the values the year selector offers
RECURSIVE digitsValue(_, _)
digitsValue(s, acc) ==
    IF s = <<>> THEN acc ELSE digitsValue(Tail(s), acc * 10 + DigitVal(s[1]))

Number(s) == digitsValue(s, 0)

\* uniqueSortedYears of part_000: the non-null years, ascending
uniqueSortedYears(data) ==
    SortAsc({data[i].year : i \in 1..Len(data)} \ {NoYear})

\* d.year ?? 99
yearOr99(d) == IF d.year = NoYear THEN 99 ELSE d.year

\* computeConstellationPositions of src/src/App.js
computeConstellationPositions_App(data, w, h) ==
    LET cx == w * 500
        cy == h * 500
        margin == 28000
        outerR == Max(0, Min(w, h) * 500 - margin)
        years == SortAsc({yearOr99(data[i]) : i \in 1..Len(data)})
        groupCount == Max(1, Len(years))
        groupRingRx == Pct(outerR, 66)
        groupRingRy == Pct(outerR, 50)
        localR == clamp(Pct(outerR, 18), 22000, 110000)
        offset == -180
        ga(gi) == offset + (gi * 720) \div groupCount
        gcx(gi) == cx + Scale(groupRingRx, cos(ga(gi)))
        gcy(gi) == cy + Scale(groupRingRy, sin(ga(gi)))
        group(gi) == SelectSeq(data, LAMBDA d : yearOr99(d) = years[gi + 1])
        sorted(gi) == sortByName(group(gi))
        count(gi) == Len(group(gi))
        ringR(gi) == IF count(gi) <= 1 THEN 0
                     ELSE IF count(gi) = 2 THEN Pct(localR, 45)
                     ELSE Pct(localR, 86)
        localOffset(gi) == ga(gi) - 180
        a(gi, i) == IF count(gi) <= 1 THEN localOffset(gi)
                    ELSE localOffset(gi) + (i * 720) \div count(gi)
        placed(gi) ==
            [i \in 1..count(gi) |->
                sorted(gi)[i] @@
                [cx |-> gcx(gi) + Scale(ringR(gi), cos(a(gi, i - 1))),
                 cy |-> gcy(gi) + Scale(ringR(gi), sin(a(gi, i - 1)))]]
    IN  [nodes |-> Flatten([g \in 1..Len(years) |-> placed(g - 1)]),
         groups |-> [g \in 1..Len(years) |->
                        [year |-> years[g], x |-> gcx(g - 1), y |-> gcy(g - 1),
                         labelX |-> cx + Pct(gcx(g - 1) - cx, 55),
                         labelY |-> cy + Pct(gcy(g - 1) - cy, 55)]]]

\* the years of a Map filled by nodes.forEach, in insertion order
RECURSIVE insertionYears(_, _)
insertionYears(data, seen) ==
    IF data = <<>> THEN seen
    ELSE IF \E i \in 1..Len(seen) : seen[i] = Head(data).year
         THEN insertionYears(Tail(data), seen)
    ELSE insertionYears(Tail(data), Append(seen, Head(data).year))

\* part_000 with the clusters turning as fast as the ring: localRot = rotation
computeYearClusterPositions_FullLocalRot(data, w, h, rot, isMobile, yf) ==
    LET cx == w * 500
        cy == h * 500
        years == uniqueSortedYears(data)
        filteredYears == IF yf.all THEN years ELSE SelectSeq(years, LAMBDA y : y = yf.y)
        yearRingR == IF isMobile THEN Min(w, h) * 220 ELSE Min(w, h) * 280
        nodeRingR == IF isMobile THEN Min(w, h) * 75 ELSE Min(w, h) * 85
        count == IF Len(filteredYears) = 0 THEN 1 ELSE Len(filteredYears)
        offset == -180
        ringAngle(i) == offset + (i * 720) \div count + rot
        yearCenters ==
            IF isMobile /\ Len(filteredYears) = 1
            THEN <<[year |-> filteredYears[1], x |-> cx, y |-> cy - 10000]>>
            ELSE [k \in 1..Len(filteredYears) |->
                    [year |-> filteredYears[k],
                     x |-> cx + Scale(yearRingR, cos(ringAngle(k - 1))),
                     y |-> cy + Scale(yearRingR, sin(ringAngle(k - 1)))]]
        kept == SelectSeq(data, LAMBDA n : n.year # NoYear /\ (yf.all \/ n.year = yf.y))
        byYear == insertionYears(kept, <<>>)
        arr(y) == sortByName(SelectSeq(kept, LAMBDA n : n.year = y))
        hasCenter(y) == \E k \in 1..Len(yearCenters) : yearCenters[k].year = y
        center(y) == yearCenters[CHOOSE k \in 1..Len(yearCenters) : yearCenters[k].year = y]
        localRot == rot
        a(y, i) == -180 + (i * 720) \div Max(1, Len(arr(y))) + localRot
        placed(y) ==
            IF ~hasCenter(y) THEN <<>>
            ELSE [i \in 1..Len(arr(y)) |->
                    arr(y)[i] @@
                    [cx |-> center(y).x + Scale(nodeRingR, cos(a(y, i - 1))),
                     cy |-> center(y).y + Scale(nodeRingR, sin(a(y, i - 1))),
                     yearCx |-> center(y).x,
                     yearCy |-> center(y).y]]
    IN  [nodes |-> Flatten([k \in 1..Len(byYear) |-> placed(byYear[k])]),
         groups |-> yearCenters]

\* computeYearClusterPositions of part_000; yf is [all, y]: "all" or a number
computeYearClusterPositions(data, w, h, rot, isMobile, yf) ==
    LET cx == w * 500
        cy == h * 500
        years == uniqueSortedYears(data)
        filteredYears == IF yf.all THEN years ELSE SelectSeq(years, LAMBDA y : y = yf.y)
        yearRingR == IF isMobile THEN Min(w, h) * 220 ELSE Min(w, h) * 280
        nodeRingR == IF isMobile THEN Min(w, h) * 75 ELSE Min(w, h) * 85
        count == IF Len(filteredYears) = 0 THEN 1 ELSE Len(filteredYears)
        offset == -180
        ringAngle(i) == offset + (i * 720) \div count + rot
        yearCenters ==
            IF isMobile /\ Len(filteredYears) = 1
            THEN <<[year |-> filteredYears[1], x |-> cx, y |-> cy - 10000]>>
            ELSE [k \in 1..Len(filteredYears) |->
                    [year |-> filteredYears[k],
                     x |-> cx + Scale(yearRingR, cos(ringAngle(k - 1))),
                     y |-> cy + Scale(yearRingR, sin(ringAngle(k - 1)))]]
        kept == SelectSeq(data, LAMBDA n : n.year # NoYear /\ (yf.all \/ n.year = yf.y))
        byYear == insertionYears(kept, <<>>)
        arr(y) == sortByName(SelectSeq(kept, LAMBDA n : n.year = y))
        hasCenter(y) == \E k \in 1..Len(yearCenters) : yearCenters[k].year = y
        center(y) == yearCenters[CHOOSE k \in 1..Len(yearCenters) : yearCenters[k].year = y]
        localRot == Pct(rot, 35)
        a(y, i) == -180 + (i * 720) \div Max(1, Len(arr(y))) + localRot
        placed(y) ==
            IF ~hasCenter(y) THEN <<>>
            ELSE [i \in 1..Len(arr(y)) |->
                    arr(y)[i] @@
                    [cx |-> center(y).x + Scale(nodeRingR, cos(a(y, i - 1))),
                     cy |-> center(y).y + Scale(nodeRingR, sin(a(y, i - 1))),
                     yearCx |-> center(y).x,
                     yearCy |-> center(y).y]]
    IN  [nodes |-> Flatten([k \in 1..Len(byYear) |-> placed(byYear[k])]),
         groups |-> yearCenters]

\* (a.name || "") as the sort key of part_001
NameKeyP1(d) == IF Truthy(d.name) THEN String(d.name) ELSE <<>>

RECURSIVE insertByNameP1(_, _)
insertByNameP1(sorted, e) ==
    IF sorted = <<>> THEN <<e>>
    ELSE IF localeLess(NameKeyP1(e), NameKeyP1(Head(sorted))) THEN <<e>> \o sorted
    ELSE <<Head(sorted)>> \o insertByNameP1(Tail(sorted), e)

RECURSIVE sortByNameP1(_)
sortByNameP1(a) ==
    IF a = <<>> THEN <<>>
    ELSE insertByNameP1(sortByNameP1(SubSeq(a, 1, Len(a) - 1)), a[Len(a)])

\* computeConstellationPositions of part_001; yearFilter is the selector's string
computeConstellationPositions_P1(data, w, h, rot, yfilter) ==
    LET cx == w * 500
        cy == h * 500
        R == Min(w, h) * 280
        rBase == Min(w, h) * 60
        years == SortAsc({data[i].year : i \in 1..Len(data)} \ {NoYear})
        byYear(y) == SelectSeq(data, LAMBDA d : d.year = y)
        offset == -180 + rot
        ca(idx) == offset + (idx * 720) \div Len(years)
        yearCenters ==
            [k \in 1..Len(years) |->
                [year |-> years[k],
                 x |-> cx + Scale(R, cos(ca(k - 1))),
                 y |-> cy + Scale(R, sin(ca(k - 1))),
                 a |-> ca(k - 1)]]
        placed(k) ==
            LET arr == byYear(years[k])
                center == yearCenters[k]
                localR == Pct(rBase, clamp(70 + Len(arr) * 6, 80, 160))
                localOffset == -180 + Pct(center.a, 35)
                sorted == sortByNameP1(arr)
                t(i) == IF Len(arr) <= 1 THEN 0 ELSE (i * 720) \div Len(arr)
            IN  [i \in 1..Len(arr) |->
                    sorted[i] @@
                    [cx |-> center.x + Scale(localR, cos(localOffset + t(i - 1))),
                     cy |-> center.y + Scale(localR, sin(localOffset + t(i - 1))),
                     yearCenter |-> center]]
        nodesAll == Flatten([k \in 1..Len(years) |-> placed(k)])
    IN  [nodes |-> IF yfilter = AllStr THEN nodesAll
                   ELSE SelectSeq(nodesAll, LAMBDA n : n.year = Number(yfilter)),
         groups |-> yearCenters]

\* What mulberry32(hashSeed(d.id)) yields for a node: r = Math.pow(u1, 0.62) in
\* thousandths, a = u2 * 2 * PI in half-degrees, jx = (u3 * 2 - 1) * 18 and
\* jy = (u4 * 2 - 1) * 14 in thousandths of a pixel.  The generator is not
\* computed: a node's draw is one of these, the same at every layout.
DrawList ==
    <<[r |-> 0, a |-> 0, jx |-> 0, jy |-> 0],
      [r |-> 999, a |-> 360, jx |-> -18000, jy |-> -14000],
      [r |-> 999, a |-> 90, jx |-> 17999, jy |-> 13999]>>

\* computePositions of nodebox, given the generator's draw for each node
computePositions(data, w, h, dr) ==
    LET cx == w * 500
        cy == h * 500
        spreadX == Max(140000, w * 360)
        spreadY == Max(120000, h * 280)
        x(i) == cx + Scale(Scale(spreadX, dr[i].r), cos(dr[i].a)) + dr[i].jx
        y(i) == cy + Scale(Scale(spreadY, dr[i].r), sin(dr[i].a)) + dr[i].jy
    IN  [nodes |-> [i \in 1..Len(data) |->
                      data[i] @@
                      [cx |-> clamp(x(i), 26000, (w - 26) * 1000),
                       cy |-> clamp(y(i), 26000, (h - 26) * 1000)]],
         groups |-> <<>>]

(***************************************************************************)
(* SpecLayout: the layout functions applied to a dataset and a viewport    *)
(***************************************************************************)

MaxNodes == 3  \* longest dataset laid out

\* window.innerWidth x window.innerHeight, in pixels
Viewports == {<<40, 40>>, <<100, 100>>, <<360, 640>>, <<800, 600>>}

\* rotation of the year ring, in half-degrees (part_000 and part_001 only)
Rotations == {0, 100}

FilterSamples == {AllStr, <<"7">>, <<"8">>}

\* the year the clustered layout of src/src/App.js files undated entities under
SentinelYear == 99

LayoutRecs ==
    {Obj(JNull, JStr(<<"a">>), y, JNull, JNull, JNull, JNull, JNull, JNull) :
        y \in {JNull, JNum(7), JNum(8), JNum(SentinelYear)}}
    \cup {Obj(JNull, JStr(<<"B">>), JNum(7), JNull, JNull, JNull, JNull, JNull, JNull)}

LayoutInputs ==
    {[isArray |-> TRUE, items |-> it] : it \in SeqsUpTo(LayoutRecs, MaxNodes)}

\* the <option> values of the year selector: "all" and String(y) of each year
YearOptions(data) ==
    {AllStr} \cup {NumToStr(data[i].year) : i \in {j \in 1..Len(data) : data[j].year # NoYear}}

\* the filtered memo of src/src/App.js
filtered(data, yfilter) ==
    IF yfilter = AllStr THEN data
    ELSE SelectSeq(data, LAMBDA d : d.year = Number(yfilter))

\* W < 720
isMobile(w) == w < 720

\* the position of the first node carrying node i's id
FirstWithId(data, i) ==
    CHOOSE j \in 1..i : data[j].id = data[i].id /\ \A k \in 1..(j - 1) : data[k].id # data[i].id

\* one assignment of draws to ids: equal ids get equal draws, and over the
\* three shifts every id receives every draw
DrawsFor(data, shift) ==
    [i \in 1..Len(data) |-> DrawList[((FirstWithId(data, i) + shift) % Len(DrawList)) + 1]]

\* the layout memo of each variant
Layout(v, data, w, h, rot, yfilter, shift) ==
    CASE v = "nodebox" -> computePositions(data, w, h, DrawsFor(data, shift))
      [] v = "p0" ->
            computeYearClusterPositions(data, w, h, rot, isMobile(w),
                [all |-> yfilter = AllStr,
                 y |-> IF yfilter = AllStr THEN NoYear ELSE Number(yfilter)])
      [] v = "p1" -> computeConstellationPositions_P1(data, w, h, rot, yfilter)
      [] OTHER -> computeConstellationPositions_App(filtered(data, yfilter), w, h)

InitLayout ==
    /\ variant \in Variants
    /\ pc = "start"
    /\ raw \in LayoutInputs
    /\ dataset = Returned(<<>>)
    /\ \E vp \in Viewports : W = vp[1] /\ H = vp[2]
    /\ rotation \in IF variant \in {"p0", "p1"} THEN Rotations ELSE {0}
    /\ yearFilter \in IF variant = "nodebox" THEN {AllStr} ELSE FilterSamples
    /\ nodes = <<>> /\ centers = <<>>
    /\ ScoreIdle /\ LinksIdle /\ UIIdle

\* const layout = useMemo(() => compute...Positions(...), [...])
ComputeLayout ==
    /\ pc = "loaded"
    /\ ~dataset.threw
    /\ yearFilter \in YearOptions(dataset.value)
    /\ \E shift \in IF variant = "nodebox" THEN 0..(Len(DrawList) - 1) ELSE {0} :
          LET lay == Layout(variant, dataset.value, W, H, rotation, yearFilter, shift)
          IN  nodes' = lay.nodes /\ centers' = lay.groups
    /\ pc' = "laid"
    /\ UNCHANGED <<uiVars, variant, raw, dataset, argA, argB, mode, score, scoreSwap,
                   W, H, rotation, yearFilter, active, topN, links>>

NextLayout == LoadDataset \/ ComputeLayout

SpecLayout == InitLayout /\ [][NextLayout]_vars

\* the margin a layout names: 28 in src/src/App.js, 26 in nodebox's clamp, none in
\* part_000 and part_001, whose positions are held against the viewport itself
Margin(v) == CASE v = "app" -> 28000 [] v = "nodebox" -> 26000 [] OTHER -> 0

\* C7: for any dataset and any viewport, small ones included, every position a
\* layout function produces satisfies margin <= x <= W - margin and
\* margin <= y <= H - margin for that layout's margin.
C7_LayoutWithinMargin ==
    pc = "laid" =>
        \A i \in 1..Len(nodes) :
            /\ Margin(variant) <= nodes[i].cx
            /\ nodes[i].cx <= W * 1000 - Margin(variant)
            /\ Margin(variant) <= nodes[i].cy
            /\ nodes[i].cy <= H * 1000 - Margin(variant)

(***************************************************************************)
(* Link selection                                                          *)
(***************************************************************************)

\* .map((n) => ({ n, s: score(active, n, mode) }))
scoreAll(v, act, others, m) ==
    [i \in 1..Len(others) |->
        [n |-> others[i], s |-> similarityScore(v, <<act>>, <<others[i]>>, m)]]

\* a filter that lets candidates with score 0 through
qualifying_KeepZero(v, act, pool, m) ==
    SelectSeq(scoreAll(v, act, SelectSeq(pool, LAMBDA n : ~StrictEq(n.id, act.id)), m),
              LAMBDA x : x.s >= 0)

\* nodes.filter((n) => n.id !== active.id).map(...).filter((x) => x.s > 0)
qualifying(v, act, pool, m) ==
    SelectSeq(scoreAll(v, act, SelectSeq(pool, LAMBDA n : ~StrictEq(n.id, act.id)), m),
              LAMBDA x : x.s > 0)

RECURSIVE insertByScore(_, _)
insertByScore(sorted, e) ==
    IF sorted = <<>> THEN <<e>>
    ELSE IF e.s > Head(sorted).s THEN <<e>> \o sorted
    ELSE <<Head(sorted)>> \o insertByScore(Tail(sorted), e)

\* .sort((a, b) => b.s - a.s): descending, equal scores keep their order
RECURSIVE sortByScore(_)
sortByScore(a) ==
    IF a = <<>> THEN <<>>
    ELSE insertByScore(sortByScore(SubSeq(a, 1, Len(a) - 1)), a[Len(a)])

\* the second argument of .slice(0, ...)
linkLimit(v, n, mobile) ==
    CASE v = "app" -> clamp(n, 1, 40)
      [] v = "p0" -> clamp(n, 3, 12)
      [] v = "p1" -> clamp(n, 3, IF mobile THEN 8 ELSE 12)
      [] OTHER -> 5

\* a slice that keeps one candidate too many
slice0_OneMore(a, k) == SubSeq(a, 1, Min(Len(a), k + 1))

\* .slice(0, k)
slice0(a, k) == SubSeq(a, 1, Min(Len(a), k))

\* what a width, level or alpha is when its ratio is NaN
NaN == -1000000

\* the ratio 0 / 0
NotFinite == [num |-> 0, den |-> 0]

\* clamp(s / max, 0, 1) as the fraction num/den.  x / 0 is Infinity, -Infinity
\* or, for x = 0, NaN, which Math.min and Math.max hand on; den = 0 is NaN.
ratioOf(x, max) ==
    IF max > 0 THEN [num |-> clamp(x, 0, max), den |-> max]
    ELSE IF max < 0 THEN [num |-> clamp(-x, 0, -max), den |-> -max]
    ELSE IF x > 0 THEN [num |-> 1, den |-> 1]
    ELSE IF x < 0 THEN [num |-> 0, den |-> 1]
    ELSE NotFinite

\* base + ratio * span, in thousandths
widthOf(r, base, span) ==
    IF r.den = 0 THEN NaN ELSE base + (span * r.num) \div r.den

\* clamp(Math.round(1 + (s / max) * 4), 1, 5) of nodebox
levelOf(x, max) ==
    IF max > 0 THEN clamp((3 * max + 8 * x) \div (2 * max), 1, 5)
    ELSE IF max < 0 THEN clamp((-3 * max - 8 * x) \div (-2 * max), 1, 5)
    ELSE IF x > 0 THEN 5
    ELSE IF x < 0 THEN 1
    ELSE NaN

\* clamp(0.18 + (s / max) * 0.62, 0.18, 0.85) of nodebox, in thousandths
alphaOf(x, max) ==
    IF max > 0 THEN clamp(180 + (620 * x) \div max, 180, 850)
    ELSE IF max < 0 THEN clamp(180 + (-620 * x) \div (-max), 180, 850)
    ELSE IF x > 0 THEN 850
    ELSE IF x < 0 THEN 180
    ELSE NaN

\* the link object each variant builds for a scored candidate
linkOf(v, act, x, max, mobile) ==
    CASE v = "nodebox" ->
            [from |-> act, to |-> x.n,
             level |-> levelOf(x.s, max),
             alpha |-> alphaOf(x.s, max)]
      [] v = "p0" ->
            [from |-> act, to |-> x.n, ratio |-> ratioOf(x.s, max),
             width |-> widthOf(ratioOf(x.s, max), 1200, 3000)]
      [] v = "p1" ->
            [from |-> act, to |-> x.n, ratio |-> ratioOf(x.s, max),
             width |-> widthOf(ratioOf(x.s, max), 1100, IF mobile THEN 2200 ELSE 3000)]
      [] OTHER ->
            [from |-> act, to |-> x.n, ratio |-> ratioOf(x.s, max),
             width |-> widthOf(ratioOf(x.s, max), 1000, 3600)]

\* a map that divides by the fallback 1 whatever the first score is
linksFrom_MaxOne(v, act, scored, mobile) ==
    [i \in 1..Len(scored) |-> linkOf(v, act, scored[i], 4, mobile)]

\* scored.map(...) with max = scored[0]?.s ?? 1; scores are in quarter points,
\* so the fallback max of 1 is 4
linksFrom(v, act, scored, mobile) ==
    [i \in 1..Len(scored) |->
        linkOf(v, act, scored[i], IF scored = <<>> THEN 4 ELSE scored[1].s, mobile)]

\* a links memo that leaves the candidates in pool order
selectLinks_Unsorted(v, act, pool, m, n, mobile) ==
    linksFrom(v, act, slice0(qualifying(v, act, pool, m), linkLimit(v, n, mobile)), mobile)

Reverse(a) == [i \in 1..Len(a) |-> a[Len(a) + 1 - i]]

\* a links memo whose sort does not keep equal scores in pool order
selectLinks_TiesReversed(v, act, pool, m, n, mobile) ==
    linksFrom(v, act,
              slice0(sortByScore(Reverse(qualifying(v, act, pool, m))),
                     linkLimit(v, n, mobile)),
              mobile)

\* the links memo for a selected entity
selectLinks(v, act, pool, m, n, mobile) ==
    linksFrom(v, act,
              slice0(sortByScore(qualifying(v, act, pool, m)), linkLimit(v, n, mobile)),
              mobile)

\* without the early return: with nothing selected the first node stands in
linksMemo_FirstNodeActive(v, act, pool, m, n, mobile) ==
    IF pool = <<>> THEN <<>>
    ELSE selectLinks(v, IF act = <<>> THEN pool[1] ELSE act[1], pool, m, n, mobile)

\* the links memo: no links while nothing is selected
linksMemo(v, act, pool, m, n, mobile) ==
    IF act = <<>> THEN <<>> ELSE selectLinks(v, act[1], pool, m, n, mobile)

(***************************************************************************)
(* SpecLinks: link selection applied to a laid-out pool                    *)
(***************************************************************************)

MaxPool == 7   \* largest pool links are selected from
MaxMixed == 4  \* longest pool drawn in every order

PoolRec(i) == Obj(JNull, JNull, JNum(7), i, JNull, JNull, JNull, JNull, JNull)

\* instruments "a, b", instruments "a" and no tags at all, every one in year 7
PoolHi == PoolRec(JStr(<<"a", ",", " ", "b">>))
PoolLo == PoolRec(JStr(<<"a">>))
PoolNone == PoolRec(JNull)

\* instruments "a, b" and no year: part_000 and part_001 leave it out of the layout
PoolUndated == Obj(JNull, JNull, JNull, JStr(<<"a", ",", " ", "b">>),
                   JNull, JNull, JNull, JNull, JNull)

Rep(x, k) == [i \in 1..k |-> x]

\* short pools in every order, longer ones weakest first, and datasets of at
\* most two entities of which some have no year
PoolSeqs ==
    SeqsUpTo({PoolHi, PoolLo, PoolNone}, MaxMixed)
    \cup SeqsUpTo({PoolHi, PoolUndated}, 2)
    \cup {Rep(PoolLo, l) \o Rep(PoolNone, z) \o Rep(PoolHi, h) :
            l \in 0..MaxPool, z \in 0..MaxPool, h \in 0..MaxPool}

LinkInputs ==
    {[isArray |-> TRUE, items |-> it] : it \in {q \in PoolSeqs : Len(q) <= MaxPool}}

\* requested link counts: below every slider's minimum, in range, far above
TopNSamples == {1, 3, 1000}

\* two mode keys of each variant's selector; nodebox has no selector
LinkModes(v) ==
    CASE v = "app" -> {"band", "instrument"}
      [] v = "p0" -> {"band", "instruments"}
      [] v = "p1" -> {"ideal", "instruments"}
      [] OTHER -> {"band"}

\* the requested counts a variant can be given; nodebox takes none
LinkCounts(v) == IF v = "nodebox" THEN {0} ELSE TopNSamples

InitLinks ==
    /\ variant \in Variants
    /\ pc = "start"
    /\ raw \in LinkInputs
    /\ dataset = Returned(<<>>)
    /\ W = 800 /\ H = 600
    /\ rotation = 0
    /\ yearFilter = AllStr
    /\ nodes = <<>> /\ centers = <<>>
    /\ ScoreIdle /\ LinksIdle /\ UIIdle

\* what `active` is once node d was tapped: the node itself in src/src/App.js and
\* nodebox, dataset.find((d) => d.id === activeId) in part_000 and part_001
activeOf(v, data, d) ==
    IF v \in {"p0", "p1"}
    THEN data[CHOOSE j \in 1..Len(data) :
                 /\ StrictEq(data[j].id, d.id)
                 /\ \A k \in 1..(j - 1) : ~StrictEq(data[k].id, d.id)]
    ELSE d

\* node i becomes active under mode m and requested count n; the links memo runs
SelectLinks(i, m, n) ==
    /\ pc = "laid"
    /\ i \in 1..Len(nodes)
    /\ LET act == activeOf(variant, dataset.value, nodes[i])
       IN  /\ active' = <<act>>
           /\ links' = linksMemo(variant, <<act>>, nodes, m, n, isMobile(W))
    /\ mode' = m
    /\ topN' = n
    /\ pc' = "linked"
    /\ UNCHANGED <<uiVars, variant, raw, dataset, argA, argB, score, scoreSwap,
                   W, H, rotation, yearFilter, nodes, centers>>

SelectStep ==
    \E i \in 1..MaxPool, m \in LinkModes(variant), n \in LinkCounts(variant) :
        SelectLinks(i, m, n)

\* a render with nothing selected (activeId / active start as null): the links
\* memo runs with active = null
RenderUnselected(m, n) ==
    /\ pc = "laid"
    /\ active' = <<>>
    /\ links' = linksMemo(variant, <<>>, nodes, m, n, isMobile(W))
    /\ mode' = m
    /\ topN' = n
    /\ pc' = "linked"
    /\ UNCHANGED <<uiVars, variant, raw, dataset, argA, argB, score, scoreSwap,
                   W, H, rotation, yearFilter, nodes, centers>>

RenderStep ==
    \E m \in LinkModes(variant), n \in LinkCounts(variant) : RenderUnselected(m, n)

\* part_001's search box lists entities of the dataset, laid out or not, and a
\* tap on entry j makes it active; the links memo runs against the laid-out nodes
SearchSelect(j, m, n) ==
    /\ pc = "laid"
    /\ variant = "p1"
    /\ j \in 1..Min(8, Len(dataset.value))
    /\ LET act == activeOf(variant, dataset.value, dataset.value[j])
       IN  /\ active' = <<act>>
           /\ links' = linksMemo(variant, <<act>>, nodes, m, n, isMobile(W))
    /\ mode' = m
    /\ topN' = n
    /\ pc' = "linked"
    /\ UNCHANGED <<uiVars, variant, raw, dataset, argA, argB, score, scoreSwap,
                   W, H, rotation, yearFilter, nodes, centers>>

SearchStep ==
    \E j \in 1..MaxPool, m \in LinkModes(variant), n \in LinkCounts(variant) :
        SearchSelect(j, m, n)

NextLinks == LoadDataset \/ ComputeLayout \/ SelectStep \/ RenderStep \/ SearchStep

SpecLinks == InitLinks /\ [][NextLinks]_vars

\* the raw score behind a link
LinkScore(l) == similarityScore(variant, <<l.from>>, <<l.to>>, mode)

\* position in the pool of the node a link leads to
PoolIndex(l) == CHOOSE i \in 1..Len(nodes) : nodes[i] = l.to

\* the pool members other than the active one that score above zero
Qualifiers ==
    {i \in 1..Len(nodes) :
        /\ active # <<>>
        /\ ~StrictEq(nodes[i].id, active[1].id)
        /\ similarityScore(variant, active, <<nodes[i]>>, mode) > 0}

HasRatio == variant # "nodebox"

\* C4: within one link selection the links are in descending raw-score order,
\* their ratios are non-increasing along the sequence, and when a link is
\* returned the first link's ratio is exactly 1.
C4_LinksDescending ==
    pc = "linked" =>
        /\ \A i \in 1..(Len(links) - 1) :
              /\ LinkScore(links[i]) >= LinkScore(links[i + 1])
              /\ HasRatio =>
                    links[i].ratio.num * links[i + 1].ratio.den
                        >= links[i + 1].ratio.num * links[i].ratio.den
        /\ (HasRatio /\ links # <<>>) => links[1].ratio.num = links[1].ratio.den

\* a selection whose strongest match stood behind a weaker one in the pool
C4_Witness ==
    /\ pc = "linked"
    /\ HasRatio
    /\ Len(links) >= 3
    /\ LinkScore(links[1]) > LinkScore(links[Len(links)])
    /\ PoolIndex(links[1]) > PoolIndex(links[Len(links)])
    /\ links[1].ratio.num = links[1].ratio.den
    /\ links[Len(links)].ratio.num < links[Len(links)].ratio.den

\* C5: the number of links equals min(c, q), c the requested count after the
\* selector's clamp and q the number of non-active pool members with a positive
\* score; never more than the pool holds.
C5_LinkCount ==
    pc = "linked" =>
        /\ Len(links) = Min(linkLimit(variant, topN, isMobile(W)), Cardinality(Qualifiers))
        /\ Len(links) <= Len(nodes)

\* 1000 links requested with five qualifying candidates: five links
C5_Witness ==
    /\ pc = "linked"
    /\ topN = 1000
    /\ Cardinality(Qualifiers) = 5
    /\ Len(links) = 5

\* C6: the selector itself clamps the requested count to a range with minimum 3
\* and a maximum between 8 and 16: a request below 3 is served as 3, and no
\* request yields more than 16 links.
C6_SelectorClampsTopN ==
    (pc = "linked" /\ variant # "nodebox") =>
        /\ linkLimit(variant, topN, isMobile(W)) >= 3
        /\ linkLimit(variant, topN, isMobile(W)) <= 16
        /\ topN < 3 => Len(links) = Min(3, Cardinality(Qualifiers))
        /\ Len(links) <= 16

(***************************************************************************)
(* The same record normalised twice (SpecNorm)                             *)
(***************************************************************************)

\* raw record i survives nodebox's .filter((d) => d.id); the others keep all
KeptRaw(i) ==
    variant = "nodebox" => IdTruthy(normalizeRecord_Nodebox(raw.items[i], i - 1))

\* the entity made from raw record i, once the dataset is loaded
EntityOf(i) == dataset.value[Cardinality({k \in 1..i : KeptRaw(k)})]

\* pairs of positions holding the same raw record, both normalised to an entity
SameRecordPairs ==
    {p \in (1..Len(raw.items)) \X (1..Len(raw.items)) :
        /\ p[1] < p[2]
        /\ raw.items[p[1]] = raw.items[p[2]]
        /\ KeptRaw(p[1]) /\ KeptRaw(p[2])}

PositionFreeFields == {"year", "collab"} \cup TagFields

\* C11 as stated: the same raw record normalised twice gives field-for-field
\* identical entities, also when it has no id and stands at different positions.
C11_SameRecordSameEntity ==
    (pc = "loaded" /\ ~dataset.threw) =>
        \A p \in SameRecordPairs : EntityOf(p[1]) = EntityOf(p[2])

\* C11 amended: the same raw record normalised twice gives entities equal in
\* year, collab and the five tag lists; they are equal in id and name too when
\* the record carries a non-empty id of its own.
C11_SameRecordSameFields ==
    (pc = "loaded" /\ ~dataset.threw) =>
        \A p \in SameRecordPairs :
            /\ \A f \in PositionFreeFields : EntityOf(p[1])[f] = EntityOf(p[2])[f]
            /\ Truthy(Field(raw.items[p[1]], "id")) => EntityOf(p[1]) = EntityOf(p[2])

\* a record without an id, twice: same year, different synthesized ids
C11_Witness ==
    /\ pc = "loaded" /\ ~dataset.threw
    /\ \E p \in SameRecordPairs :
          /\ Nullish(Field(raw.items[p[1]], "id"))
          /\ EntityOf(p[1]).year # NoYear
          /\ EntityOf(p[1]).year = EntityOf(p[2]).year
          /\ EntityOf(p[1]).id # EntityOf(p[2]).id

(***************************************************************************)
(* Mode keys and overlaps (SpecScore)                                      *)
(***************************************************************************)

\* the toSet of the running variant
ToSetOf(v, arr) ==
    CASE v = "nodebox" -> toSet_Nodebox(arr)
      [] v = "p1" -> toSet_P1(arr)
      [] OTHER -> toSet(arr)

\* the overlap count the running variant's scorer takes for attribute f
Shared(f) == overlapCount(ToSetOf(variant, argA[1][f]), ToSetOf(variant, argB[1][f]))

\* the two scored entities are distinct and share instruments and nothing else
OnlyInstrumentsShared ==
    /\ BothPresent
    /\ ~StrictEq(argA[1].id, argB[1].id)
    /\ Shared("instruments") > 0
    /\ \A f \in TagFields \ {"instruments"} : Shared(f) = 0

\* the option values of each variant's mode selector
OwnKeys(v) ==
    CASE v = "app" -> {"instrument", "influences", "band"}
      [] v = "p0" -> {"instruments", "influences", "band"}
      [] v = "p1" -> {"ideal", "instruments", "influences"}
      [] OTHER -> {}

\* the key of the blended policy and of the instruments policy in each variant
BlendedKey(v) == IF v = "p1" THEN "ideal" ELSE "band"
InstrumentsKey(v) == IF v = "app" THEN "instrument" ELSE "instruments"

\* what the blended mode gives for the scored pair
BlendedScore == similarityScore(variant, argA, argB, BlendedKey(variant))

\* C12 as stated: a mode outside {instruments, influences, band/ideal} scores
\* exactly as the blended mode does, and the key "instruments" applies the
\* instruments-weighted policy, not the blended one.
C12_ModeDispatch ==
    (pc = "scored" /\ variant # "nodebox") =>
        /\ mode \notin {"instruments", "influences", "band", "ideal"} => score = BlendedScore
        /\ (mode = "instruments" /\ OnlyInstrumentsShared) => score > BlendedScore

\* C12 amended: a mode outside the variant's own key set scores exactly as the
\* blended mode does, and the variant's own instruments key ("instrument" in
\* src/src/App.js, "instruments" in part_000 and part_001) applies the
\* instruments-weighted policy, not the blended one.
C12_ModeDispatchOwnKeys ==
    (pc = "scored" /\ variant # "nodebox") =>
        /\ mode \notin OwnKeys(variant) => score = BlendedScore
        /\ (mode = InstrumentsKey(variant) /\ OnlyInstrumentsShared) => score > BlendedScore

\* src/src/App.js scoring a pair that shares instruments only under "instruments":
\* the key is unknown to it and the pair gets the blended score
C12_Witness ==
    /\ pc = "scored" /\ variant = "app"
    /\ mode = "instruments"
    /\ OnlyInstrumentsShared
    /\ score > 0 /\ score = BlendedScore

(***************************************************************************)
(* Who is linked (SpecLinks)                                               *)
(***************************************************************************)

\* C13: no link leads to the active entity, and every link's target scores
\* strictly above 0 against the active entity under the current mode;
\* candidates scoring 0 are not linked even when fewer than topN qualify.
C13_OnlyPositiveOthers ==
    pc = "linked" =>
        \A i \in 1..Len(links) :
            /\ links[i].to.id # active[1].id
            /\ similarityScore(variant, active, <<links[i].to>>, mode) > 0

\* fewer links than asked for, while a candidate scoring 0 is left in the pool
C13_Witness ==
    /\ pc = "linked"
    /\ Len(links) >= 1
    /\ Len(links) < linkLimit(variant, topN, isMobile(W))
    /\ \E i \in 1..Len(nodes) :
          /\ nodes[i].id # active[1].id
          /\ similarityScore(variant, active, <<nodes[i]>>, mode) = 0
          /\ \A k \in 1..Len(links) : links[k].to # nodes[i]

\* C14: candidates with equal scores are ordered by a stable, deterministic
\* secondary key, here their position in the pool, so the links and their
\* order are fixed by the active entity, the pool, the mode and topN: of two
\* links with the same score the one earlier in the pool comes first, and a
\* candidate left out scores no more than any link and, on a tie with the last
\* link, stands behind it in the pool.
C14_TiesKeepPoolOrder ==
    pc = "linked" =>
        /\ \A i, j \in 1..Len(links) :
              (i < j /\ LinkScore(links[i]) = LinkScore(links[j]))
                  => PoolIndex(links[i]) < PoolIndex(links[j])
        /\ \A q \in Qualifiers :
              (\A k \in 1..Len(links) : links[k].to # nodes[q]) =>
                  LET last == links[Len(links)]
                      s == similarityScore(variant, active, <<nodes[q]>>, mode)
                  IN  \/ s < LinkScore(last)
                      \/ (s = LinkScore(last) /\ PoolIndex(last) < q)

\* two links of equal score, and a third candidate of that score cut by the slice
C14_Witness ==
    /\ pc = "linked"
    /\ Len(links) >= 2
    /\ LinkScore(links[Len(links) - 1]) = LinkScore(links[Len(links)])
    /\ \E q \in Qualifiers :
          /\ \A k \in 1..Len(links) : links[k].to # nodes[q]
          /\ similarityScore(variant, active, <<nodes[q]>>, mode) = LinkScore(links[Len(links)])

\* C15: each link's ratio is its score divided by the score of the first link,
\* so it lies in [0, 1] and is never NaN or infinite.  nodebox keeps the ratio
\* in level = round(1 + 4 * ratio) and alpha = 0.18 + 0.62 * ratio only.
C15_RatioIsScoreOverMax ==
    pc = "linked" =>
        \A i \in 1..Len(links) :
            LET s == LinkScore(links[i])
                max == LinkScore(links[1])
            IN  /\ max > 0
                /\ HasRatio =>
                      /\ links[i].ratio.den # 0
                      /\ links[i].ratio.num * max = s * links[i].ratio.den
                      /\ 0 <= links[i].ratio.num
                      /\ links[i].ratio.num <= links[i].ratio.den
                      /\ links[i].width # NaN
                /\ ~HasRatio =>
                      /\ links[i].alpha = 180 + (620 * s) \div max
                      /\ links[i].alpha <= 800
                      /\ links[i].level = (3 * max + 8 * s) \div (2 * max)
                      /\ links[i].level \in 1..5

\* a link at half the strength of the first one
C15_Witness ==
    /\ pc = "linked"
    /\ Len(links) >= 2
    /\ 2 * LinkScore(links[Len(links)]) = LinkScore(links[1])
    /\ IF HasRatio
       THEN 2 * links[Len(links)].ratio.num = links[Len(links)].ratio.den
       ELSE links[Len(links)].alpha = 490 /\ links[Len(links)].level = 3

(***************************************************************************)
(* Nothing to lay out, nothing to link (SpecLinks)                         *)
(***************************************************************************)

\* C16: an empty dataset is laid out as no nodes and no group centers, an empty
\* pool or no active entity gives no links, and the normaliser does not raise;
\* with nothing positioned and nothing linked no coordinate or width exists
\* that could be NaN.
C16_EmptyInEmptyOut ==
    /\ (pc \in {"laid", "linked"} /\ dataset.value = <<>>) =>
            (~dataset.threw /\ nodes = <<>> /\ centers = <<>>)
    /\ (pc = "linked" /\ (nodes = <<>> \/ active = <<>>)) =>
            links = <<>>

\* the empty dataset rendered: nothing laid out, nothing selected, no links
C16_Witness ==
    /\ pc = "linked"
    /\ raw.isArray /\ raw.items = <<>>
    /\ dataset = Returned(<<>>)
    /\ nodes = <<>> /\ centers = <<>>
    /\ active = <<>>
    /\ links = <<>>

\* an entity without a year found through part_001's search: active, nothing
\* laid out to link it to
C16_ActiveEmptyPool ==
    /\ pc = "linked"
    /\ active # <<>>
    /\ dataset.value # <<>>
    /\ nodes = <<>>
    /\ links = <<>>

\* nothing selected among nodes that match one another
C16_UnselectedAmongMatches ==
    /\ pc = "linked"
    /\ active = <<>>
    /\ Len(nodes) >= 2
    /\ similarityScore(variant, <<nodes[1]>>, <<nodes[2]>>, mode) > 0
    /\ links = <<>>

(***************************************************************************)
(* Instruments against influences (SpecScore)                              *)
(***************************************************************************)

\* the two scored entities are distinct, share exactly two instruments and
\* share no genre, artist, role or geek tag
TwoInstrumentsShared == OnlyInstrumentsShared /\ Shared("instruments") = 2

\* C17: two entities that share exactly 2 instruments and nothing else score
\* strictly higher under the instruments mode than under the influences mode
\* (src/src/App.js, part_000 and part_001; nodebox has no modes).
C17_InstrumentsOverInfluences ==
    (pc = "scored" /\ variant # "nodebox" /\ TwoInstrumentsShared) =>
        /\ mode \in {"instruments", InstrumentsKey(variant)} =>
                score > similarityScore(variant, argA, argB, "influences")
        /\ mode = "influences" =>
                /\ score < similarityScore(variant, argA, argB, InstrumentsKey(variant))
                /\ score < similarityScore(variant, argA, argB, "instruments")

\* part_000 scoring such a pair under influences: the two instruments count 1
\* each there and 6 each under instruments
C17_Witness ==
    /\ pc = "scored" /\ variant = "p0"
    /\ TwoInstrumentsShared
    /\ mode = "influences"
    /\ score = 4 * 2
    /\ similarityScore(variant, argA, argB, "instruments") = 4 * 12

(***************************************************************************)
(* What an overlap counts (SpecScore)                                      *)
(***************************************************************************)

\* the tags a value stands for: each element trimmed and case-folded, empty
\* ones left out
Tokens(arr) == {trim(toLowerCase(arr[i])) : i \in 1..Len(arr)} \ {<<>>}

\* the distinct tags both scored entities carry in attribute f
SharedTokens(f) == Tokens(argA[1][f]) \cap Tokens(argB[1][f])

C18_CaseOnlyShared ==
    /\ pc = "scored" /\ BothPresent
    /\ argA[1].instruments = << <<"A">>, <<"a">>, <<"b">> >>
    /\ argB[1].instruments = << <<"A">>, <<"b">> >>
    /\ Shared("instruments") = 2

(***************************************************************************)
(* Who is laid out, and in which group (SpecLayout)                        *)
(***************************************************************************)

Undated(e) == e.year = NoYear

\* the byYear key an entity is filed under: d.year ?? 99 in src/src/App.js,
\* the year itself in part_000 and part_001
BucketKey(v, e) == IF v = "app" THEN yearOr99(e) ELSE e.year

\* how many laid-out nodes stand for entity j of the dataset
TimesPlaced(j) == Cardinality({i \in 1..Len(nodes) : nodes[i].id = dataset.value[j].id})

\* C19: in the clustered layout with filter "all" every entity of the dataset
\* appears exactly once among the positioned nodes, and the entities without a
\* year are placed as a bucket of their own, apart from every real year's group.
C19_EveryEntityPlacedOnce ==
    (pc = "laid" /\ variant # "nodebox" /\ yearFilter = AllStr) =>
        /\ \A j \in 1..Len(dataset.value) : TimesPlaced(j) = 1
        /\ \A i, k \in 1..Len(nodes) :
              (Undated(nodes[i]) /\ ~Undated(nodes[k])) =>
                    BucketKey(variant, nodes[i]) # BucketKey(variant, nodes[k])

\* part_000 and part_001 leave an entity without a year out of the layout
C19_UndatedLeftOut ==
    /\ pc = "laid" /\ variant \in {"p0", "p1"} /\ yearFilter = AllStr
    /\ Len(dataset.value) = 2
    /\ Undated(dataset.value[1]) /\ ~Undated(dataset.value[2])
    /\ TimesPlaced(1) = 0 /\ TimesPlaced(2) = 1

\* src/src/App.js files an entity without a year with the entities of year 99
C19_UndatedAmongDated ==
    /\ pc = "laid" /\ variant = "app" /\ yearFilter = AllStr
    /\ Len(nodes) = 2 /\ Len(centers) = 1
    /\ Undated(nodes[1]) /\ nodes[2].year = SentinelYear
    /\ centers[1].year = SentinelYear

(***************************************************************************)
(* A group filter against the unfiltered layout (SpecLayout)               *)
(***************************************************************************)

\* the layout of the same dataset, viewport and rotation under filter "all"
Unfiltered == Layout(variant, dataset.value, W, H, rotation, AllStr, 0)

\* part_000 on a small viewport with one year left: that year is drawn at the
\* centre of the viewport
SingleGroupCentered == variant = "p0" /\ isMobile(W) /\ Len(centers) = 1

\* the centers of the groups that still have nodes
RemainingCenters ==
    {i \in 1..Len(centers) : \E k \in 1..Len(nodes) : nodes[k].year = centers[i].year}

\* C20: outside the single-group-centered mode a specific group filter leaves
\* each remaining entity, and the center of its group, at exactly the position
\* it has in the unfiltered layout for the same viewport and rotation.
C20_FilterKeepsPositions ==
    (pc = "laid" /\ variant # "nodebox" /\ yearFilter # AllStr /\ ~SingleGroupCentered) =>
        /\ \A i \in 1..Len(nodes) :
              \E k \in 1..Len(Unfiltered.nodes) :
                  /\ Unfiltered.nodes[k].id = nodes[i].id
                  /\ Unfiltered.nodes[k].cx = nodes[i].cx
                  /\ Unfiltered.nodes[k].cy = nodes[i].cy
        /\ \A i \in RemainingCenters :
              \E k \in 1..Len(Unfiltered.groups) : Unfiltered.groups[k] = centers[i]

\* years 7 and 8 on a wide viewport, filter "8": the group that stands second
\* on the ring unfiltered is laid out as the first of one
C20_Renumbered ==
    /\ pc = "laid" /\ variant \in {"app", "p0"}
    /\ ~isMobile(W)
    /\ yearFilter = <<"8">>
    /\ Len(nodes) = 1 /\ Len(centers) = 1
    /\ \E k \in 1..Len(Unfiltered.nodes) :
          /\ Unfiltered.nodes[k].id = nodes[1].id
          /\ Unfiltered.nodes[k].cy > nodes[1].cy
    /\ \E k \in 1..Len(Unfiltered.groups) :
          /\ Unfiltered.groups[k].year = 8
          /\ Unfiltered.groups[k] # centers[1]

(***************************************************************************)
(* Groups of one (SpecLayout)                                              *)
(***************************************************************************)

\* the laid-out nodes filed under the same year as node i
GroupOf(i) ==
    {k \in 1..Len(nodes) : BucketKey(variant, nodes[k]) = BucketKey(variant, nodes[i])}

\* the index of the center node i is placed around
CenterOf(i) ==
    CHOOSE c \in 1..Len(centers) : centers[c].year = BucketKey(variant, nodes[i])

\* C21: in the clustered layout a group with exactly one member places that
\* member exactly at the group's center coordinates (inner radius zero), and a
\* group with no members contributes nothing: every center is the center of a
\* year some entity of the dataset has.
C21_SingletonAtCenter ==
    (pc = "laid" /\ variant # "nodebox") =>
        /\ \A i \in 1..Len(nodes) :
              Cardinality(GroupOf(i)) = 1 =>
                  /\ nodes[i].cx = centers[CenterOf(i)].x
                  /\ nodes[i].cy = centers[CenterOf(i)].y
        /\ \A c \in 1..Len(centers) :
              \E j \in 1..Len(dataset.value) :
                  BucketKey(variant, dataset.value[j]) = centers[c].year

\* part_000 and part_001 put the only member of a year on the inner ring,
\* above the center on an unrotated view
C21_SingletonOnRing ==
    /\ pc = "laid" /\ variant \in {"p0", "p1"}
    /\ rotation = 0
    /\ Len(nodes) = 1 /\ Len(centers) = 1
    /\ nodes[1].cy < centers[1].y

\* src/src/App.js puts it on the center
C21_SingletonCentered ==
    /\ pc = "laid" /\ variant = "app"
    /\ Len(nodes) = 2 /\ Len(centers) = 2
    /\ \A i \in 1..2 : nodes[i].cx = centers[i].x /\ nodes[i].cy = centers[i].y

(***************************************************************************)
(* Years (SpecNorm)                                                        *)
(***************************************************************************)

\* the string form of raw record i's year, "" for a missing one
YearText(i) == String(Coalesce(Field(raw.items[i], "year"), JStr(<<>>)))

DigitPositions(s) == {p \in 1..Len(s) : IsDigit(s[p])}

\* the integer the first digit of s forms with the digit right after it, if any
FirstDigits(s) ==
    LET p == CHOOSE q \in DigitPositions(s) : \A r \in DigitPositions(s) : q <= r
    IN  IF p + 1 \in DigitPositions(s)
        THEN DigitVal(s[p]) * 10 + DigitVal(s[p + 1])
        ELSE DigitVal(s[p])

\* C22: the normalized year is null exactly when the string form of the raw
\* year holds no digit, otherwise it is the integer formed by the first run of
\* one or two digits, and a present year is at least 1.
C22_YearFromDigits ==
    (pc = "loaded" /\ ~dataset.threw) =>
        \A i \in 1..Len(raw.items) :
            KeptRaw(i) =>
                LET y == EntityOf(i).year
                    s == YearText(i)
                IN  /\ y = NoYear <=> DigitPositions(s) = {}
                    /\ y # NoYear => (y = FirstDigits(s) /\ y >= 1)

\* {year: 0} normalised: the year is present and is 0
C22_YearZero ==
    /\ pc = "loaded" /\ ~dataset.threw
    /\ \E i \in 1..Len(raw.items) :
          /\ KeptRaw(i)
          /\ Field(raw.items[i], "year") = JNum(0)
          /\ EntityOf(i).year = 0

\* {year: "7B"}, {year: "Y12b3"} and {year: 123} normalised: 7, 12 and 12
C22_FirstDigitsTaken ==
    /\ pc = "loaded" /\ ~dataset.threw
    /\ \E i \in 1..Len(raw.items) :
          /\ KeptRaw(i)
          /\ YearText(i) \in {<<"7", "B">>, <<"Y", "1", "2", "b", "3">>, <<"1", "2", "3">>}
          /\ EntityOf(i).year = FirstDigits(YearText(i))
          /\ EntityOf(i).year \in {7, 12}

(***************************************************************************)
(* SpecUI: the mounted App handling user events                            *)
(*                                                                         *)
(* A handler and the render that follows it are one step; the effects of   *)
(* that render run as the next step, pass after pass, until a pass sets no *)
(* state.  Events are handled in settled states only (pc = "idle").        *)
(***************************************************************************)

MaxShown == 3  \* largest dataset the mounted App is given

UIRec(name, y) ==
    Obj(JNull, JStr(<<name>>), y, JStr(<<"a">>), JNull, JNull, JNull, JNull, JNull)

\* four entities that all share an instrument: two of year 7, one of year 8,
\* one without a year
UIList == <<UIRec("a", JNum(7)), UIRec("b", JNum(8)), UIRec("c", JNull), UIRec("d", JNum(7))>>

\* the sub-lists of UIList picked by a set of positions
RECURSIVE Pick(_, _)
Pick(list, keep) ==
    IF list = <<>> THEN <<>>
    ELSE IF Len(list) \in keep
         THEN Append(Pick(SubSeq(list, 1, Len(list) - 1), keep), list[Len(list)])
         ELSE Pick(SubSeq(list, 1, Len(list) - 1), keep)

UIInputs ==
    {[isArray |-> TRUE, items |-> Pick(UIList, keep)] :
        keep \in {k \in SUBSET (1..Len(UIList)) : Cardinality(k) <= MaxShown}}

\* a phone and a desktop window
UIViewports == {<<360, 640>>, <<800, 600>>}

\* useState initial values of the mode and of the requested link count
InitialMode(v) == IF v = "p1" THEN "ideal" ELSE "band"
InitialTopN(v, w) ==
    CASE v = "app" -> 10
      [] v = "p0" -> 3
      [] v = "p1" -> IF isMobile(w) THEN 3 ELSE 6
      [] OTHER -> 0

InitUI ==
    /\ variant \in Variants
    /\ pc = "start"
    /\ raw \in UIInputs
    /\ dataset = Returned(<<>>)
    /\ \E vp \in UIViewports : W = vp[1] /\ H = vp[2]
    /\ rotation = 0
    /\ yearFilter = AllStr
    /\ nodes = <<>> /\ centers = <<>>
    /\ ScoreIdle /\ LinksIdle /\ UIIdle

\* the layout memo and the links memo of a render, from the state it renders
ReRender ==
    /\ nodes' = Layout(variant, dataset'.value, W', H', rotation', yearFilter', 0).nodes
    /\ centers' = Layout(variant, dataset'.value, W', H', rotation', yearFilter', 0).groups
    /\ links' = linksMemo(variant, active', nodes', mode', topN', isMobile(W'))

\* the first render
Mount ==
    /\ pc = "loaded"
    /\ ~dataset.threw
    /\ mode' = InitialMode(variant)
    /\ topN' = InitialTopN(variant, W)
    /\ pc' = "effects"
    /\ UNCHANGED <<uiVars, variant, raw, dataset, argA, argB, score, scoreSwap,
                   W, H, rotation, yearFilter, active>>
    /\ ReRender

HasNode(id) == \E k \in 1..Len(nodes) : nodes[k].id = id

\* a tap that selects whatever was selected before
toggle_AlwaysSelect(act, d) == <<d>>

\* setActive((p) => (p?.id === d.id ? null : d)) and its activeId twins
toggle(act, d) == IF act # <<>> /\ act[1].id = d.id THEN <<>> ELSE <<d>>

\* what a tap on laid-out node d leaves selected
tapped(v, act, data, d) == toggle(act, activeOf(v, data, d))

\* pointer-down on laid-out node i.  part_000's handler reads the undeclared
\* `p` when isMobile is true and throws after setActiveId was queued.
TapNode(i) ==
    /\ pc = "idle"
    /\ i \in 1..Len(nodes)
    /\ active' = tapped(variant, active, dataset.value, nodes[i])
    /\ raised' = (variant = "p0" /\ isMobile(W))
    /\ event' = [kind |-> "tap", id |-> nodes[i].id, dir |-> 0, was |-> yearFilter]
    /\ pc' = "effects"
    /\ UNCHANGED <<sheetOpen, sheetTab, seenActive, variant, raw, dataset, argA, argB,
                   mode, score, scoreSwap, W, H, rotation, yearFilter, topN>>
    /\ ReRender

TapStep == \E i \in 1..(MaxShown + 1) : TapNode(i)

\* the year <select>: setYearFilter(e.target.value); nodebox has none
SetYearFilter(f) ==
    /\ pc = "idle"
    /\ variant # "nodebox"
    /\ f \in YearOptions(dataset.value)
    /\ f # yearFilter
    /\ yearFilter' = f
    /\ raised' = FALSE
    /\ event' = [kind |-> "filter", id |-> f, dir |-> 0, was |-> yearFilter]
    /\ pc' = "effects"
    /\ UNCHANGED <<sheetOpen, sheetTab, seenActive, variant, raw, dataset, argA, argB,
                   mode, score, scoreSwap, W, H, rotation, active, topN>>
    /\ ReRender

FilterStep == \E f \in {AllStr, <<"7">>, <<"8">>} : SetYearFilter(f)

\* window resize: setVp({ w: window.innerWidth, h: window.innerHeight })
Resize(w, h) ==
    /\ pc = "idle"
    /\ <<w, h>> # <<W, H>>
    /\ W' = w /\ H' = h
    /\ raised' = FALSE
    /\ event' = [kind |-> "resize", id |-> <<>>, dir |-> 0, was |-> yearFilter]
    /\ pc' = "effects"
    /\ UNCHANGED <<sheetOpen, sheetTab, seenActive, variant, raw, dataset, argA, argB,
                   mode, score, scoreSwap, rotation, yearFilter, active, topN>>
    /\ ReRender

ResizeStep == \E vp \in UIViewports : Resize(vp[1], vp[2])

\* setRotation by key, wheel or drag; only part_000 and part_001 rotate
Rotate(r) ==
    /\ pc = "idle"
    /\ variant \in {"p0", "p1"}
    /\ r # rotation
    /\ rotation' = r
    /\ raised' = FALSE
    /\ event' = [kind |-> "rotate", id |-> <<>>, dir |-> 0, was |-> yearFilter]
    /\ pc' = "effects"
    /\ UNCHANGED <<sheetOpen, sheetTab, seenActive, variant, raw, dataset, argA, argB,
                   mode, score, scoreSwap, W, H, yearFilter, active, topN>>
    /\ ReRender

RotateStep == \E r \in Rotations : Rotate(r)

\* part_001: a search result is tapped: setActiveId(s.id); the results are
\* entities of the dataset, laid out or not
SearchPick(j) ==
    /\ pc = "idle"
    /\ variant = "p1"
    /\ j \in 1..Min(8, Len(dataset.value))
    /\ active' = <<activeOf(variant, dataset.value, dataset.value[j])>>
    /\ raised' = FALSE
    /\ event' = [kind |-> "search", id |-> dataset.value[j].id, dir |-> 0, was |-> yearFilter]
    /\ pc' = "effects"
    /\ UNCHANGED <<sheetOpen, sheetTab, seenActive, variant, raw, dataset, argA, argB,
                   mode, score, scoreSwap, W, H, rotation, yearFilter, topN>>
    /\ ReRender

SearchPickStep == \E j \in 1..(MaxShown + 1) : SearchPick(j)

\* orderedNodes of src/src/App.js: by year (99 for none), then by name
orderedNodes(ns) ==
    LET ys == SortAsc({yearOr99(ns[i]) : i \in 1..Len(ns)})
    IN  Flatten([g \in 1..Len(ys) |->
                    sortByName(SelectSeq(ns, LAMBDA n : yearOr99(n) = ys[g]))])

\* orderedNodes.findIndex((n) => n.id === active.id), 0-based, -1 if none
findIndex(ordered, id) ==
    IF \E k \in 1..Len(ordered) : ordered[k].id = id
    THEN (CHOOSE k \in 1..Len(ordered) :
              /\ ordered[k].id = id
              /\ \A q \in 1..(k - 1) : ordered[q].id # id) - 1
    ELSE -1

\* a moveActive that stops at the ends
moveActive_NoWrap(ordered, act, dir) ==
    IF ordered = <<>> THEN act
    ELSE LET idx == IF act # <<>> THEN findIndex(ordered, act[1].id) ELSE -1
             nextIdx == IF idx = -1 THEN 0
                        ELSE Max(0, Min(Len(ordered) - 1, idx + (IF dir > 0 THEN 1 ELSE -1)))
         IN  <<ordered[nextIdx + 1]>>

\* moveActive of src/src/App.js: the selection a step in direction dir leaves
moveActive(ordered, act, dir) ==
    IF ordered = <<>> THEN act
    ELSE LET idx == IF act # <<>> THEN findIndex(ordered, act[1].id) ELSE -1
             nextIdx == IF idx = -1 THEN 0
                        ELSE (idx + (IF dir > 0 THEN 1 ELSE -1) + Len(ordered)) % Len(ordered)
         IN  <<ordered[nextIdx + 1]>>

\* the id the [activeId] effect of part_000 compares
activeIdOf(act) == IF act = <<>> THEN <<>> ELSE <<act[1].id>>

\* src/src/App.js: ArrowRight / ArrowLeft or the wheel
MoveActive(dir) ==
    /\ pc = "idle"
    /\ variant = "app"
    /\ active' = moveActive(orderedNodes(nodes), active, dir)
    /\ raised' = FALSE
    /\ event' = [kind |-> "move", id |-> activeIdOf(active), dir |-> dir,
                 was |-> yearFilter]
    /\ pc' = "effects"
    /\ UNCHANGED <<sheetOpen, sheetTab, seenActive, variant, raw, dataset, argA, argB,
                   mode, score, scoreSwap, W, H, rotation, yearFilter, topN>>
    /\ ReRender

MoveStep == \E dir \in {-1, 1} : MoveActive(dir)

\* part_000 (310-313): Escape clears the selection and closes the sheet
Escape ==
    /\ pc = "idle"
    /\ variant = "p0"
    /\ active' = <<>>
    /\ sheetOpen' = FALSE
    /\ raised' = FALSE
    /\ event' = [kind |-> "escape", id |-> <<>>, dir |-> 0, was |-> yearFilter]
    /\ pc' = "effects"
    /\ UNCHANGED <<sheetTab, seenActive, variant, raw, dataset, argA, argB,
                   mode, score, scoreSwap, W, H, rotation, yearFilter, topN>>
    /\ ReRender

\* src/src/App.js (230-234) and part_001 (287-291): clear a selection that is
\* not among the laid-out nodes
ClearHidden ==
    /\ pc = "effects"
    /\ variant \in {"app", "p1"}
    /\ active # <<>>
    /\ ~HasNode(active[1].id)
    /\ active' = <<>>
    /\ pc' = "effects"
    /\ UNCHANGED <<uiVars, variant, raw, dataset, argA, argB, mode, score, scoreSwap,
                   W, H, rotation, yearFilter, topN>>
    /\ ReRender

\* a focus effect that leaves the year filter alone
focusYear_Keep(yf, act) == yf

\* the year filter the focus effect leaves on a phone
focusYear(yf, act) ==
    IF yf = AllStr /\ act[1].year # NoYear THEN NumToStr(act[1].year) ELSE yf

\* part_000 (292-303), deps [activeId]: on a phone a new selection opens the
\* sheet on the matches tab and, under filter "all", focuses its year
FocusSelection ==
    /\ pc = "effects"
    /\ variant = "p0"
    /\ seenActive # activeIdOf(active)
    /\ seenActive' = activeIdOf(active)
    /\ IF isMobile(W) /\ active # <<>>
       THEN /\ sheetOpen' = TRUE
            /\ sheetTab' = "matches"
            /\ yearFilter' = focusYear(yearFilter, active)
       ELSE UNCHANGED <<sheetOpen, sheetTab, yearFilter>>
    /\ pc' = "effects"
    /\ UNCHANGED <<raised, event, variant, raw, dataset, argA, argB, mode, score,
                   scoreSwap, W, H, rotation, active, topN>>
    /\ ReRender

\* an effect pass that sets no state: the App is settled
Settle ==
    /\ pc = "effects"
    /\ ~(variant \in {"app", "p1"} /\ active # <<>> /\ ~HasNode(active[1].id))
    /\ ~(variant = "p0" /\ seenActive # activeIdOf(active))
    /\ pc' = "idle"
    /\ UNCHANGED <<uiVars, variant, raw, dataset, argA, argB, mode, score, scoreSwap,
                   W, H, rotation, yearFilter, nodes, centers, active, topN, links>>

NextUI ==
    \/ LoadDataset
    \/ Mount
    \/ TapStep
    \/ FilterStep
    \/ ResizeStep
    \/ RotateStep
    \/ SearchPickStep
    \/ MoveStep
    \/ Escape
    \/ ClearHidden
    \/ FocusSelection
    \/ Settle

SpecUI == InitUI /\ [][NextUI]_vars

(***************************************************************************)
(* The selection and the laid-out nodes (SpecUI)                           *)
(***************************************************************************)

Settled == pc = "idle"

\* the selection is one of the laid-out nodes
ActiveShown == active # <<>> /\ HasNode(active[1].id)

\* C23: in every settled state the active entity, if any, is one of the
\* currently laid-out nodes: a change of year filter or of the node set that
\* leaves it outside them clears the selection.
C23_ActiveStaysVisible == Settled => (active = <<>> \/ ActiveShown)

\* part_000, settled after the year filter was changed: the selection is kept
\* and is not among the laid-out nodes
C23_HiddenSelectionKept ==
    /\ Settled /\ variant = "p0"
    /\ event.kind = "filter"
    /\ active # <<>>
    /\ ~HasNode(active[1].id)

(***************************************************************************)
(* Taps (SpecUI)                                                           *)
(***************************************************************************)

\* this step handles a pointer-down on a laid-out node
TapHandled == pc = "idle" /\ pc' = "effects" /\ event'.kind = "tap"

\* C24: a pointer-down on node d selects d when nothing or another node is
\* selected and clears the selection when d is the selected node; the
\* selection is never more than one node.
C24_TapToggles ==
    [][TapHandled =>
          /\ IF active # <<>> /\ active[1].id = event'.id
             THEN active' = <<>>
             ELSE active' # <<>> /\ active'[1].id = event'.id
          /\ Len(active') <= 1]_vars

\* a second tap on the selected node: nothing is selected
C24_Witness ==
    /\ pc = "effects"
    /\ event.kind = "tap"
    /\ HasNode(event.id)
    /\ active = <<>>

\* a tap on another node than the selected one: the tapped one is selected
C24_TapSelectsOther ==
    /\ Settled
    /\ event.kind = "tap"
    /\ active # <<>> /\ active[1].id = event.id
    /\ Len(nodes) >= 2

(***************************************************************************)
(* Search picks (SpecUI)                                                   *)
(***************************************************************************)

\* the entity of the dataset that carries id
EntityWithId(id) == dataset.value[CHOOSE j \in 1..Len(dataset.value) : dataset.value[j].id = id]

\* C25: an entry chosen from the search results is the active selection, and
\* still is once all effects have settled, whatever the year filter and
\* whether or not the entity has a year.
C25_SearchPickStays ==
    (Settled /\ event.kind = "search") =>
        (active # <<>> /\ active[1].id = event.id)

\* part_001 settled after a search pick of an entity without a year: nothing
\* is selected
C25_UndatedPickCleared ==
    /\ Settled /\ variant = "p1"
    /\ event.kind = "search"
    /\ EntityWithId(event.id).year = NoYear
    /\ active = <<>>

\* part_001 settled after a search pick of an entity of year 8 under the
\* filter "7": nothing is selected
C25_FilteredPickCleared ==
    /\ Settled /\ variant = "p1"
    /\ event.kind = "search"
    /\ EntityWithId(event.id).year = 8
    /\ yearFilter = <<"7">>
    /\ active = <<>>

\* a search pick of a laid-out entity: selected, and still so when settled
C25_ShownPickStays ==
    /\ Settled /\ variant = "p1"
    /\ event.kind = "search"
    /\ active # <<>> /\ active[1].id = event.id

(***************************************************************************)
(* Rotation of the ring (SpecLayout)                                       *)
(***************************************************************************)

\* -pi/2 + (i/N) * 2pi + rotation for the group at position k = i + 1 of N
CenterAngle(k, N, rot) == -180 + ((k - 1) * 720) \div N + rot

\* yearRingR of part_000, R of part_001
OuterRadius(v, w, h) ==
    IF v = "p0" /\ isMobile(w) THEN Min(w, h) * 220 ELSE Min(w, h) * 280

\* nodeRingR of part_000, localR of part_001 for a group of m members
InnerRadius(v, w, h, m) ==
    IF v = "p0"
    THEN IF isMobile(w) THEN Min(w, h) * 75 ELSE Min(w, h) * 85
    ELSE Pct(Min(w, h) * 60, clamp(70 + m * 6, 80, 160))

\* the members of node i's group, as positions in nodes, and i's rank in it
Members(i) == {k \in 1..Len(nodes) : nodes[k].year = nodes[i].year}
RankOf(i) == Cardinality({k \in Members(i) : k < i})

\* the inner-ring angle of node i on an unrotated view: -pi/2 + (j/m) * 2pi in
\* part_000; in part_001 -pi/2 + 0.35 * (the unrotated angle of its center)
\* + (j/m) * 2pi, the last term 0 for a group of one
MemberAngle0(i) ==
    LET m == Cardinality(Members(i))
        j == RankOf(i)
    IN  IF variant = "p0" THEN -180 + (j * 720) \div m
        ELSE -180 + Pct(CenterAngle(CenterOf(i), Len(centers), 0), 35)
                  + (IF m <= 1 THEN 0 ELSE (j * 720) \div m)

OnOuterRing(k) ==
    /\ centers[k].x = W * 500
            + Scale(OuterRadius(variant, W, H), cos(CenterAngle(k, Len(centers), rotation)))
    /\ centers[k].y = H * 500
            + Scale(OuterRadius(variant, W, H), sin(CenterAngle(k, Len(centers), rotation)))

\* node i stands on the inner ring of its center, 0.35 * rotation further
\* round than on an unrotated view
OnInnerRing(i) ==
    LET c == centers[CenterOf(i)]
        r == InnerRadius(variant, W, H, Cardinality(Members(i)))
        ang == MemberAngle0(i) + Pct(rotation, 35)
    IN  /\ nodes[i].cx = c.x + Scale(r, cos(ang))
        /\ nodes[i].cy = c.y + Scale(r, sin(ang))

\* the layout of the same dataset, viewport and filter on an unrotated view
Unrotated == Layout(variant, dataset.value, W, H, 0, yearFilter, 0)

\* rotation moves nodes and centers and changes nothing else: the same
\* entities in the same order around the same years
SameButPositions ==
    LET u == Unrotated
    IN  /\ Len(nodes) = Len(u.nodes)
        /\ \A i \in 1..Len(nodes) : nodes[i].id = u.nodes[i].id
        /\ Len(centers) = Len(u.groups)
        /\ \A k \in 1..Len(centers) : centers[k].year = u.groups[k].year

\* C26 as stated: group i of N, in ascending year order, has its center at
\* angle -pi/2 + (i/N) * 2pi + rotation on the outer ring; a rotation by d
\* advances every center's angle by d and every member's inner-ring angle by
\* 0.35 * d and changes nothing else.
C26_RotationTurnsRings ==
    (pc = "laid" /\ variant \in {"p0", "p1"}) =>
        /\ \A k \in 1..Len(centers) : OnOuterRing(k)
        /\ \A k \in 1..(Len(centers) - 1) : centers[k].year < centers[k + 1].year
        /\ \A i \in 1..Len(nodes) : OnInnerRing(i)
        /\ SameButPositions

\* C26 amended: the same, except that in part_000's single-group-centered
\* mode (a phone viewport with one group to lay out) the center of that group
\* stays 10 px above the middle of the viewport whatever the rotation; its
\* members still advance by 0.35 * d.
C26_RotationTurnsRingsUnlessCentered ==
    (pc = "laid" /\ variant \in {"p0", "p1"}) =>
        /\ \A k \in 1..Len(centers) :
              IF SingleGroupCentered
              THEN centers[k].x = W * 500 /\ centers[k].y = H * 500 - 10000
              ELSE OnOuterRing(k)
        /\ \A k \in 1..(Len(centers) - 1) : centers[k].year < centers[k + 1].year
        /\ \A i \in 1..Len(nodes) : OnInnerRing(i)
        /\ SameButPositions

\* a rotated wide view of two years, one of them with two members: every
\* center and every node stands elsewhere than on the unrotated view
C26_Witness ==
    /\ pc = "laid" /\ variant \in {"p0", "p1"}
    /\ ~isMobile(W)
    /\ rotation = 100
    /\ Len(centers) = 2 /\ Len(nodes) = 3
    /\ \A k \in 1..2 : centers[k] # Unrotated.groups[k]
    /\ \A i \in 1..3 : <<nodes[i].cx, nodes[i].cy>>
                          # <<Unrotated.nodes[i].cx, Unrotated.nodes[i].cy>>

\* part_000 on a rotated phone view of one year: the center is not on the ring
C26_CenteredNotTurned ==
    /\ pc = "laid" /\ variant = "p0"
    /\ SingleGroupCentered
    /\ rotation = 100
    /\ centers[1] = Unrotated.groups[1]
    /\ ~OnOuterRing(1)

(***************************************************************************)
(* A new selection on a phone (SpecUI, part_000)                           *)
(***************************************************************************)

\* the effects of a render in which the selection has changed to an entity are
\* about to run on a phone
NewSelectionOnPhone ==
    /\ variant = "p0" /\ pc = "effects"
    /\ isMobile(W)
    /\ active # <<>>
    /\ seenActive # activeIdOf(active)

\* C27: on a mobile viewport, when the selection changes to an entity with a
\* year while the year filter is "all", the filter becomes that year and the
\* bottom sheet is opened on the matches tab; when the filter is a specific
\* year already, the selection change leaves it unchanged.
C27_SelectionFocusesYear ==
    [][NewSelectionOnPhone =>
          /\ sheetOpen' /\ sheetTab' = "matches"
          /\ (yearFilter = AllStr /\ active[1].year # NoYear)
                => yearFilter' = NumToStr(active[1].year)
          /\ yearFilter # AllStr => yearFilter' = yearFilter
          /\ active' = active]_vars

\* settled after a tap under filter "all" on a phone showing two years: the
\* tapped entity is selected, its year is the filter, the sheet shows matches
C27_Witness ==
    /\ Settled /\ variant = "p0" /\ isMobile(W)
    /\ event.kind = "tap" /\ event.was = AllStr
    /\ active # <<>> /\ active[1].id = event.id
    /\ yearFilter = NumToStr(active[1].year)
    /\ Cardinality(YearOptions(dataset.value)) = 3
    /\ Len(centers) = 1
    /\ sheetOpen /\ sheetTab = "matches"

(***************************************************************************)
(* Link endpoints and the current layout (SpecUI)                          *)
(***************************************************************************)

\* the drawn line starts where the layout now puts the active entity: the
\* `from` object has the coordinates x1={l.from.cx} y1={l.from.cy} reads, and
\* they are those of the node with the active id
FromAtActiveNode(l) ==
    /\ "cx" \in DOMAIN l.from /\ "cy" \in DOMAIN l.from
    /\ \E i \in 1..Len(nodes) :
          /\ nodes[i].id = l.from.id
          /\ l.from.cx = nodes[i].cx /\ l.from.cy = nodes[i].cy

\* the line ends on a node of the current layout
ToIsNode(l) == \E i \in 1..Len(nodes) : nodes[i] = l.to

\* C28: after any sequence of select, viewport-resize, rotate and year-filter
\* events, every link's from endpoint carries defined coordinates equal to the
\* position the current layout assigns to the active entity, and every link's
\* to endpoint is a node of the current layout.
C28_LinkEndsOnLayout ==
    Settled =>
        \A k \in 1..Len(links) : FromAtActiveNode(links[k]) /\ ToIsNode(links[k])

\* part_000 and part_001: links are drawn and their `from` is the dataset
\* entity, which has no coordinates
C28_FromWithoutPosition ==
    /\ Settled /\ variant \in {"p0", "p1"}
    /\ links # <<>>
    /\ "cx" \notin DOMAIN links[1].from

\* src/src/App.js and nodebox: after a resize the `from` of a link still has the
\* coordinates the node had when it was tapped
C28_FromLeftBehind ==
    /\ Settled /\ variant \in {"app", "nodebox"}
    /\ event.kind = "resize"
    /\ links # <<>>
    /\ "cx" \in DOMAIN links[1].from
    /\ \E i \in 1..Len(nodes) :
          /\ nodes[i].id = links[1].from.id
          /\ <<nodes[i].cx, nodes[i].cy>> # <<links[1].from.cx, links[1].from.cy>>

\* right after a tap in src/src/App.js and nodebox the links start on the
\* tapped node and end on nodes
C28_FreshAfterTap ==
    /\ Settled /\ variant \in {"app", "nodebox"}
    /\ event.kind = "tap"
    /\ links # <<>>
    /\ \A k \in 1..Len(links) : FromAtActiveNode(links[k]) /\ ToIsNode(links[k])

\* in every settled state every link ends on a node of the current layout
C28_ToEndsOnNodes ==
    Settled => \A k \in 1..Len(links) : ToIsNode(links[k])

(***************************************************************************)
(* Keyboard and wheel navigation (SpecUI, src/src/App.js)                  *)
(***************************************************************************)

\* k steps in direction dir from selection act
RECURSIVE Steps(_, _, _, _)
Steps(ordered, act, dir, k) ==
    IF k = 0 THEN act ELSE Steps(ordered, moveActive(ordered, act, dir), dir, k - 1)

\* the walk order: every node once, dated nodes by ascending year, nodes of
\* one year (or of no year) by ascending name
WalkOrder(ordered, ns) ==
    /\ Len(ordered) = Len(ns)
    /\ \A i \in 1..Len(ns) : \E k \in 1..Len(ordered) : ordered[k] = ns[i]
    /\ \A p, q \in 1..Len(ordered) :
          p < q =>
             /\ (ordered[p].year # NoYear /\ ordered[q].year # NoYear)
                   => ordered[p].year <= ordered[q].year
             /\ ordered[p].year = ordered[q].year
                   => ~localeLess(NameKey(ordered[q]), NameKey(ordered[p]))

\* C29: keyboard/wheel navigation walks the laid-out nodes in year-ascending
\* then name-ascending order with wrap-around: with no selection either
\* direction selects the first node; with a selection, a forward step followed
\* by a backward step restores it, and k forward steps over k nodes return to
\* the starting node; with no nodes the selection is unchanged.
C29_NavigationWalksNodes ==
    (variant = "app" /\ Settled) =>
        LET o == orderedNodes(nodes)
        IN  /\ WalkOrder(o, nodes)
            /\ (o # <<>> /\ active = <<>>) =>
                  \A dir \in {-1, 1} : moveActive(o, active, dir) = <<o[1]>>
            /\ (o # <<>> /\ active # <<>>) =>
                  LET at == findIndex(o, active[1].id) + 1
                  IN  /\ at \in 1..Len(o)
                      /\ moveActive(o, active, 1) = <<o[(at % Len(o)) + 1]>>
                      /\ moveActive(o, moveActive(o, active, 1), -1) = <<o[at]>>
                      /\ moveActive(o, moveActive(o, active, -1), 1) = <<o[at]>>
                      /\ Steps(o, active, 1, Len(o)) = <<o[at]>>
            /\ o = <<>> => \A dir \in {-1, 1} : moveActive(o, active, dir) = active
            /\ event.kind = "move" =>
                  IF o = <<>> THEN active = <<>>
                  ELSE /\ active # <<>>
                       /\ \E k \in 1..Len(o) : active[1] = o[k]

\* a forward step from the last node of three has wrapped to the first one,
\* with an entity without a year last in the walk
C29_Witness ==
    /\ variant = "app" /\ Settled
    /\ event.kind = "move" /\ event.dir = 1
    /\ Len(nodes) = 3
    /\ orderedNodes(nodes)[3].year = NoYear
    /\ event.id = <<orderedNodes(nodes)[3].id>>
    /\ active = <<orderedNodes(nodes)[1]>>

\* a backward step from the first node has wrapped to the last one
C29_BackwardWraps ==
    /\ variant = "app" /\ Settled
    /\ event.kind = "move" /\ event.dir = -1
    /\ Len(nodes) = 3
    /\ event.id = <<orderedNodes(nodes)[1].id>>
    /\ active = <<orderedNodes(nodes)[3]>>

\* a step with nothing selected has selected the first node
C29_FirstFromNothing ==
    /\ variant = "app" /\ Settled
    /\ event.kind = "move" /\ event.dir = -1
    /\ Len(nodes) >= 2
    /\ event.id = <<>>
    /\ active = <<orderedNodes(nodes)[1]>>

\* a step over an empty layout has left nothing selected
C29_NothingToWalk ==
    /\ variant = "app" /\ Settled
    /\ event.kind = "move"
    /\ nodes = <<>> /\ active = <<>>

(***************************************************************************)
(* The node pointer-down handler of part_000 (SpecUI)                      *)
(***************************************************************************)

\* the last event was a tap on a node of part_000
TappedP0 == variant = "p0" /\ event.kind = "tap"

\* C30: in the responsive variant the node pointer-down handler completes
\* without raising an error on both mobile and desktop viewports, and on mobile
\* a tap that selects a node ends with that node selected and the bottom sheet
\* open.
C30_TapCompletes ==
    TappedP0 =>
        /\ ~raised
        /\ (Settled /\ isMobile(W) /\ active # <<>>)
              => (active[1].id = event.id /\ sheetOpen)

\* on a phone the handler has raised; the queued update and the selection
\* effect have still left the tapped node selected and the sheet open
C30_RaisedOnPhone ==
    /\ TappedP0 /\ Settled /\ isMobile(W)
    /\ raised
    /\ active # <<>> /\ active[1].id = event.id
    /\ sheetOpen

\* on a desktop viewport the handler has completed and the node is selected
C30_DesktopCompletes ==
    /\ TappedP0 /\ Settled /\ ~isMobile(W)
    /\ ~raised
    /\ active # <<>> /\ active[1].id = event.id

\* a settled selecting tap on a phone always ends selected with the sheet open
C30_SelectingTapOpensSheet ==
    (TappedP0 /\ Settled /\ isMobile(W) /\ active # <<>>)
        => (active[1].id = event.id /\ sheetOpen)

\* the sheet had been closed by Escape before such a tap
C30_ClosedThenTapped ==
    /\ TappedP0 /\ pc = "effects" /\ isMobile(W)
    /\ active # <<>> /\ ~sheetOpen /\ seenActive = <<>>
    /\ yearFilter # AllStr

====
